---- MODULE Spec2Model ----
(***************************************************************************)
(* tiny-lang: tokenizer, recursive-descent parser and tree-walking         *)
(* evaluator, modelled from the Go sources.                                *)
(*                                                                         *)
(* Source text is a sequence of one-character strings.  Identifier names,  *)
(* token literals and string values are sequences of characters as well.   *)
(* Go's nil error is the record NoError / the empty lexer message "".      *)
(***************************************************************************)
EXTENDS Integers, Sequences, FiniteSets, TLC

\* ------------------------------------------------------------------------
\* lexer: token types (iota order), Token
\* ------------------------------------------------------------------------
EOFToken == 0
LetToken == 1
IdentToken == 2
NumberToken == 3
ColonToken == 4
AssignToken == 5
DeclareToken == 6
PlusToken == 7
MinusToken == 8
MultiplyToken == 9
DivideToken == 10
LeftParenToken == 11
RightParenToken == 12
IfToken == 13
ElseToken == 14
LeftBraceToken == 15
RightBraceToken == 16
EqualToken == 17
NotEqualToken == 18
GTToken == 19
LTToken == 20
GEQToken == 21
LEQToken == 22
WhileToken == 23
TrueToken == 24
FalseToken == 25
OrToken == 26
AndToken == 27
NotToken == 28
StringToken == 29
LeftBracketToken == 30
RightBracketToken == 31
CommaToken == 32
FunctionToken == 33
ReturnToken == 34
\* the lexer names a VoidToken the token table does not list; it is some
\* further token type, distinct from all the others
VoidToken == ReturnToken + 1

\* TokenType.String()
TokenTypeString(t) ==
  CASE t = LetToken -> <<"L","E","T">>
    [] t = IdentToken -> <<"I","D","E","N","T">>
    [] t = NumberToken -> <<"N","U","M","B","E","R">>
    [] t = ColonToken -> <<":">>
    [] t = AssignToken -> <<"=">>
    [] t = DeclareToken -> <<":","=">>
    [] t = PlusToken -> <<"+">>
    [] t = MinusToken -> <<"-">>
    [] t = MultiplyToken -> <<"*">>
    [] t = DivideToken -> <<"/">>
    [] t = LeftParenToken -> <<"(">>
    [] t = RightParenToken -> <<")">>
    [] t = IfToken -> <<"I","F">>
    [] t = ElseToken -> <<"E","L","S","E">>
    [] t = LeftBraceToken -> <<"{">>
    [] t = RightBraceToken -> <<"}">>
    [] t = EqualToken -> <<"=","=">>
    [] t = NotEqualToken -> <<"!","=">>
    [] t = GTToken -> <<">">>
    [] t = LTToken -> <<"<">>
    [] t = GEQToken -> <<">","=">>
    [] t = LEQToken -> <<"<","=">>
    [] t = EOFToken -> <<"E","O","F">>
    [] t = WhileToken -> <<"W","H","I","L","E">>
    [] t = TrueToken -> <<"T","R","U","E">>
    [] t = FalseToken -> <<"F","A","L","S","E">>
    [] t = OrToken -> <<"|","|">>
    [] t = AndToken -> <<"&","&">>
    [] t = NotToken -> <<"!">>
    [] t = StringToken -> <<"S","T","R","I","N","G">>
    [] t = LeftBracketToken -> <<"[">>
    [] t = RightBracketToken -> <<"]">>
    [] t = CommaToken -> <<",">>
    [] t = FunctionToken -> <<"F","U","N","C","T","I","O","N">>
    [] t = ReturnToken -> <<"R","E","T","U","R","N">>
    [] OTHER -> <<"U","N","K","N","O","W","N">>

\* Token{...}; ZeroToken is Go's Token{}: every field zero, so its Type is
\* TokenType(0), which is EOFToken
Token(type, literal, column, line) ==
  [Type |-> type, Literal |-> literal, Column |-> column, Line |-> line]

ZeroToken == Token(0, <<>>, 0, 0)

\* ------------------------------------------------------------------------
\* lexer: Lexer
\* ------------------------------------------------------------------------
\* rune 0, what peek/next return at the end of the input
NUL == "NUL"

\* unicode.IsLetter / IsDigit / IsSpace on the characters of the model
Letters ==
  {"a","b","c","d","e","f","g","h","i","j","k","l","m","n","o","p","q","r",
   "s","t","u","v","w","x","y","z",
   "A","B","C","D","E","F","G","H","I","J","K","L","M","N","O","P","Q","R",
   "S","T","U","V","W","X","Y","Z"}

Digits == {"0","1","2","3","4","5","6","7","8","9"}

Spaces == {" ", "\t", "\n", "\r"}

IsLetter(c) == c \in Letters

IsDigit(c) == c \in Digits

IsSpace(c) == c \in Spaces

\* lexer.New
NewLexer(input) == [input |-> input, position |-> 0, line |-> 1, column |-> 1]

\* Lexer.error: the message and the position it is raised at; "" is nil
LexerError(l, msg) == [Msg |-> msg, line |-> l.line, column |-> l.column]

NoLexerError == [Msg |-> "", line |-> 0, column |-> 0]

\* Lexer.newToken / Lexer.newTokenLiteral
newToken(l, t) == Token(t, TokenTypeString(t), l.column, l.line)

newTokenLiteral(l, t, literal) == Token(t, literal, l.column, l.line)

\* Lexer.peek
LexerPeek(l) ==
  IF l.position >= Len(l.input) THEN NUL ELSE l.input[l.position + 1]

\* Lexer.next: the lexer after consuming one character
LexerNext(l) ==
  IF l.position >= Len(l.input) THEN l
  ELSE IF l.input[l.position + 1] = "\n"
       THEN [l EXCEPT !.line = l.line + 1, !.column = 1,
                      !.position = l.position + 1]
       ELSE [l EXCEPT !.column = l.column + 1, !.position = l.position + 1]

\* Lexer.skipWhitespace
RECURSIVE skipWhitespace(_)
skipWhitespace(l) ==
  IF l.position < Len(l.input) /\ IsSpace(LexerPeek(l))
  THEN skipWhitespace(LexerNext(l))
  ELSE l

\* the for loop of readLiteral: letters, digits and '_'
RECURSIVE readLiteralLoop(_)
readLiteralLoop(l) ==
  IF IsLetter(LexerPeek(l)) \/ IsDigit(LexerPeek(l)) \/ LexerPeek(l) = "_"
  THEN readLiteralLoop(LexerNext(l))
  ELSE l

\* input[start:end] of Go, 0-based and end-exclusive
Slice(input, start, end) == SubSeq(input, start + 1, end)

\* Lexer.readLiteral
readLiteral(l) ==
  LET l0 == skipWhitespace(l)
      l1 == readLiteralLoop(l0)
  IN [l |-> l1, literal |-> Slice(l.input, l0.position, l1.position)]

\* the digit loops of readNumber
RECURSIVE readDigits(_)
readDigits(l) ==
  IF IsDigit(LexerPeek(l)) THEN readDigits(LexerNext(l)) ELSE l

\* Lexer.readNumber
readNumber(l) ==
  LET l0 == skipWhitespace(l)
      l1 == readDigits(l0)
      l2 == IF LexerPeek(l1) = "." THEN readDigits(LexerNext(l1)) ELSE l1
  IN [l |-> l2, literal |-> Slice(l.input, l0.position, l2.position)]

\* the loop of the string case: up to the closing quote or the end
RECURSIVE readStringLoop(_)
readStringLoop(l) ==
  IF LexerPeek(l) # "\"" /\ LexerPeek(l) # NUL
  THEN readStringLoop(LexerNext(l))
  ELSE l

\* the result of NextToken: the lexer after the call, the token, the error
TokenResult(l, tok) == [l |-> l, tok |-> tok, err |-> NoLexerError]

TokenError(l, msg) == [l |-> l, tok |-> ZeroToken, err |-> LexerError(l, msg)]

\* one-character tokens of NextToken's switch
SingleCharTokens ==
  [c \in {"+", "-", "*", "/", "(", ")", "{", "}", "[", "]", ","} |->
     CASE c = "+" -> PlusToken
       [] c = "-" -> MinusToken
       [] c = "*" -> MultiplyToken
       [] c = "/" -> DivideToken
       [] c = "(" -> LeftParenToken
       [] c = ")" -> RightParenToken
       [] c = "{" -> LeftBraceToken
       [] c = "}" -> RightBraceToken
       [] c = "[" -> LeftBracketToken
       [] c = "]" -> RightBracketToken
       [] c = "," -> CommaToken]

\* the keyword switch of NextToken
Keyword(literal) ==
  CASE literal = <<"l","e","t">> -> LetToken
    [] literal = <<"i","f">> -> IfToken
    [] literal = <<"e","l","s","e">> -> ElseToken
    [] literal = <<"w","h","i","l","e">> -> WhileToken
    [] literal = <<"t","r","u","e">> -> TrueToken
    [] literal = <<"f","a","l","s","e">> -> FalseToken
    [] literal = <<"f","u","n","c">> -> FunctionToken
    [] literal = <<"r","e","t","u","r","n">> -> ReturnToken
    [] literal = <<"v","o","i","d">> -> VoidToken
    [] OTHER -> IdentToken

\* Lexer.NextToken
NextToken(l) ==
  LET l0 == skipWhitespace(l)
      c  == LexerPeek(l0)
      l1 == LexerNext(l0)
      l2 == LexerNext(l1)
  IN IF l0.position >= Len(l0.input)
     THEN TokenResult(l0, [ZeroToken EXCEPT !.Type = EOFToken])
     ELSE CASE c = "=" ->
                 IF LexerPeek(l1) = "=" THEN TokenResult(l2, newToken(l2, EqualToken))
                 ELSE TokenResult(l1, newToken(l1, AssignToken))
            [] c = ":" ->
                 IF LexerPeek(l1) # "=" THEN TokenResult(l1, newToken(l1, ColonToken))
                 ELSE TokenResult(l2, newToken(l2, DeclareToken))
            [] c \in DOMAIN SingleCharTokens ->
                 TokenResult(l1, newToken(l1, SingleCharTokens[c]))
            [] c = "<" ->
                 IF LexerPeek(l1) = "=" THEN TokenResult(l2, newToken(l2, LEQToken))
                 ELSE TokenResult(l1, newToken(l1, LTToken))
            [] c = ">" ->
                 IF LexerPeek(l1) = "=" THEN TokenResult(l2, newToken(l2, GEQToken))
                 ELSE TokenResult(l1, newToken(l1, GTToken))
            [] c = "!" ->
                 IF LexerPeek(l1) = "=" THEN TokenResult(l2, newToken(l2, NotEqualToken))
                 ELSE TokenResult(l1, newToken(l1, NotToken))
            [] c = "&" ->
                 IF LexerPeek(l1) # "&" THEN TokenError(l1, "expected '&' after '&'")
                 ELSE TokenResult(l2, newToken(l2, AndToken))
            [] c = "|" ->
                 IF LexerPeek(l1) # "|" THEN TokenError(l1, "expected '|' after '|'")
                 ELSE TokenResult(l2, newToken(l2, OrToken))
            [] c = "\"" ->
                 LET le == readStringLoop(l1)
                     lq == LexerNext(le)
                 IN IF LexerPeek(le) = NUL
                    THEN TokenError(le, "unterminated string literal")
                    ELSE TokenResult(lq,
                           Token(StringToken,
                                 Slice(l.input, l1.position, lq.position - 1),
                                 lq.column, lq.line))
            [] OTHER ->
                 IF IsLetter(c)
                 THEN LET r == readLiteral(l0)
                          k == Keyword(r.literal)
                      IN IF k = IdentToken
                         THEN TokenResult(r.l, newTokenLiteral(r.l, IdentToken, r.literal))
                         ELSE TokenResult(r.l, newToken(r.l, k))
                 ELSE IF IsDigit(c)
                 THEN LET r == readNumber(l0)
                      IN TokenResult(r.l, newTokenLiteral(r.l, NumberToken, r.literal))
                 ELSE TokenError(l0, "unexpected character")

\* a variant of the loop that appends the end-of-input token before it
\* returns; C20 distinguishes the two
RECURSIVE TokenizeLoopAppendEOF(_, _)
TokenizeLoopAppendEOF(r, tokens) ==
  IF r.tok.Type = EOFToken
  THEN [tokens |-> Append(tokens, r.tok), err |-> NoLexerError]
  ELSE IF r.err # NoLexerError
       THEN [tokens |-> <<>>, err |-> r.err]
       ELSE TokenizeLoopAppendEOF(NextToken(r.l), Append(tokens, r.tok))

\* the for loop of Tokenize: init and post call NextToken, the condition
\* reads only the token's Type, the body returns on an error
RECURSIVE TokenizeLoop(_, _)
TokenizeLoop(r, tokens) ==
  IF r.tok.Type = EOFToken
  THEN [tokens |-> tokens, err |-> NoLexerError]
  ELSE IF r.err # NoLexerError
       THEN [tokens |-> <<>>, err |-> r.err]
       ELSE TokenizeLoop(NextToken(r.l), Append(tokens, r.tok))

\* Lexer.Tokenize
Tokenize(l) == TokenizeLoop(NextToken(l), <<>>)

\* ------------------------------------------------------------------------
\* numbers: float64 values are modelled exactly, as normalised fractions
\* ------------------------------------------------------------------------
Abs(x) == IF x < 0 THEN -x ELSE x

RECURSIVE GCD(_, _)
GCD(a, b) == IF b = 0 THEN a ELSE GCD(b, a % b)

\* the fraction n/d in lowest terms with a positive denominator
Rat(n, d) ==
  LET g == GCD(Abs(n), Abs(d))
      s == IF d < 0 THEN -1 ELSE 1
  IN [n |-> (s * n) \div g, d |-> (s * d) \div g]

Num(k) == [n |-> k, d |-> 1]

RatAdd(a, b) == Rat(a.n * b.d + b.n * a.d, a.d * b.d)

RatSub(a, b) == Rat(a.n * b.d - b.n * a.d, a.d * b.d)

RatMul(a, b) == Rat(a.n * b.n, a.d * b.d)

RatDiv(a, b) == Rat(a.n * b.d, a.d * b.n)

RatNeg(a) == [n |-> -a.n, d |-> a.d]

RatLess(a, b) == a.n * b.d < b.n * a.d

\* int(x) of Go: truncation toward zero
RatInt(a) == IF a.n >= 0 THEN a.n \div a.d ELSE -((-a.n) \div a.d)

DigitValue(c) ==
  CASE c = "0" -> 0 [] c = "1" -> 1 [] c = "2" -> 2 [] c = "3" -> 3
    [] c = "4" -> 4 [] c = "5" -> 5 [] c = "6" -> 6 [] c = "7" -> 7
    [] c = "8" -> 8 [] c = "9" -> 9

RECURSIVE DigitsValue(_)
DigitsValue(ds) ==
  IF ds = <<>> THEN 0
  ELSE 10 * DigitsValue(SubSeq(ds, 1, Len(ds) - 1)) + DigitValue(ds[Len(ds)])

RECURSIVE Pow10(_)
Pow10(k) == IF k = 0 THEN 1 ELSE 10 * Pow10(k - 1)

\* strconv.ParseFloat on a literal of readNumber: digits, then optionally
\* '.' and digits
ParseFloat(literal) ==
  LET dots == {i \in 1..Len(literal) : literal[i] = "."}
  IN IF dots = {} THEN Num(DigitsValue(literal))
     ELSE LET i == CHOOSE j \in dots : TRUE
              whole == SubSeq(literal, 1, i - 1)
              frac == SubSeq(literal, i + 1, Len(literal))
          IN Rat(DigitsValue(whole) * Pow10(Len(frac)) + DigitsValue(frac),
                 Pow10(Len(frac)))

\* ------------------------------------------------------------------------
\* parser: AST nodes
\* ------------------------------------------------------------------------
\* a nil Expression or Statement
NilNode == [node |-> "nil"]

NumberLiteral(value) == [node |-> "NumberLiteral", Value |-> value]

StringLiteral(value) == [node |-> "StringLiteral", Value |-> value]

BooleanLiteral(value) == [node |-> "BooleanLiteral", Value |-> value]

ArrayLiteral(elements) == [node |-> "ArrayLiteral", Elements |-> elements]

\* parser.go builds &Identifier{token}: the name is the token's literal
Identifier(tok) == [node |-> "Identifier", Name |-> tok.Literal]

BinaryExpression(left, op, right) ==
  [node |-> "BinaryExpression", Left |-> left, Op |-> op, Right |-> right]

UnaryExpression(op, right) ==
  [node |-> "UnaryExpression", Op |-> op, Right |-> right]

PostfixExpression(left, index) ==
  [node |-> "PostfixExpression", Left |-> left, Index |-> index]

FunctionCallExpression(name, args) ==
  [node |-> "FunctionCallExpression", Name |-> name, Args |-> args]

DeclarationStatement(ident, value) ==
  [node |-> "DeclarationStatement", Identifier |-> ident, Value |-> value]

AssignmentStatement(ident, value) ==
  [node |-> "AssignmentStatement", Identifier |-> ident, Value |-> value]

IndexAssignmentStatement(left, index, value) ==
  [node |-> "IndexAssignmentStatement", Left |-> left, Index |-> index,
   Value |-> value]

IfStatement(cond, then, else) ==
  [node |-> "IfStatement", Condition |-> cond, Then |-> then, Else |-> else]

WhileStatement(cond, body) ==
  [node |-> "WhileStatement", Condition |-> cond, Body |-> body]

ExpressionStatement(expr) == [node |-> "ExpressionStatement", Expr |-> expr]

FunctionStatement(name, args, body) ==
  [node |-> "FunctionStatement", Name |-> name, Args |-> args, Body |-> body]

ReturnStatement(return) == [node |-> "ReturnStatement", Return |-> return]

\* ------------------------------------------------------------------------
\* parser: Parser
\* ------------------------------------------------------------------------
\* parser.New
NewParser(toks) == [tokens |-> toks, current |-> 0]

\* Parser.peek
ParserPeek(p) ==
  IF p.current >= Len(p.tokens) THEN 0 ELSE p.tokens[p.current + 1].Type

\* Parser.peekToken
peekToken(p) ==
  IF p.current >= Len(p.tokens) THEN ZeroToken ELSE p.tokens[p.current + 1]

\* Parser.error; NoParserError is the nil error
ParserError(p, msg) == [Msg |-> msg, Token |-> peekToken(p)]

NoParserError == [Msg |-> "", Token |-> ZeroToken]

\* the results of the parse functions: the parser after the call, the
\* value returned, the error
Ok(p, v) == [p |-> p, v |-> v, err |-> NoParserError]

Fail(p, err) == [p |-> p, v |-> NilNode, err |-> err]

IsOk(r) == r.err = NoParserError

\* Parser.match
match(p, expected) ==
  IF p.current >= Len(p.tokens) THEN Fail(p, ParserError(p, "unexpected EOF"))
  ELSE IF ParserPeek(p) = expected
       THEN Ok([p EXCEPT !.current = p.current + 1], NilNode)
       ELSE Fail(p, ParserError(p, "expected token, found another"))

RECURSIVE parseStatement(_), parseBlock(_, _), parseBlockStatement(_, _),
          parseIfStatement(_), parseIfStatementThen(_),
          parseIfStatementElse(_, _), parseLogicalExpression(_),
          parseLogicalExpressionLoop(_, _, _),
          parseLogicalExpressionNext(_), parseLogicalTerm(_),
          parseLogicalTermLoop(_, _, _), parseLogicalTermNext(_),
          parseLogicalUnary(_), parseLogicalFactor(_), parseComparison(_),
          parseComparisonOperand(_, _, _), parseComparisonRight(_, _),
          parseExpression(_), parseExpressionLoop(_, _, _),
          parseExpressionNext(_), parseTerm(_), parseTermLoop(_, _, _),
          parseTermNext(_),
          parseUnary(_), parseFactor(_), parseFactorIndex(_),
          parsePrimary(_), parseArrayLiteral(_), parseArrayElements(_, _),
          parseArrayElement(_, _), parseFunctionCall(_, _),
          parseCallArguments(_, _), parseCallArgument(_, _)

\* the tail of a binary level: the error of the operator match or of the
\* right operand, else the BinaryExpression
BinaryResult(left, op, m, right) ==
  IF ~IsOk(m) THEN m
  ELSE IF ~IsOk(right) THEN Fail(right.p, right.err)
  ELSE Ok(right.p, BinaryExpression(left.v, op, right.v))

\* the operand just parsed: the first operand of its level (op = 0: no
\* operator was read before it), or the right operand of op
OperandResult(left, op, m, right) ==
  IF op = 0 THEN right ELSE BinaryResult(left, op, m, right)

\* the parser before the first operand of a level, as a result to start from
Start(p) == Ok(p, NilNode)

\* the tail of a unary level
UnaryResult(op, m, right) ==
  IF ~IsOk(m) THEN m
  ELSE IF ~IsOk(right) THEN Fail(right.p, right.err)
  ELSE Ok(right.p, UnaryExpression(op, right.v))

\* the tail of a parenthesised group: the closing parenthesis
GroupResult(m, expr) ==
  LET c == match(expr.p, RightParenToken)
  IN IF ~IsOk(m) THEN m
     ELSE IF ~IsOk(expr) THEN Fail(expr.p, expr.err)
     ELSE IF ~IsOk(c) THEN c
     ELSE Ok(c.p, expr.v)

\* Parser.parseLogicalExpression.  The operand is parsed in one place: for
\* the first operand op is 0 and m the parser at the start, in the loop m is
\* the match of the operator op and left the expression so far.
parseLogicalExpressionLoop(left, op, m) ==
  parseLogicalExpressionNext(
    OperandResult(left, op, m, parseLogicalTerm(m.p)))

\* the loop condition, after an operand
parseLogicalExpressionNext(left) ==
  IF ~IsOk(left) THEN Fail(left.p, left.err)
  ELSE IF ParserPeek(left.p) = OrToken
  THEN parseLogicalExpressionLoop(left, OrToken, match(left.p, OrToken))
  ELSE Ok(left.p, left.v)

parseLogicalExpression(p) == parseLogicalExpressionLoop(Start(p), 0, Start(p))

\* Parser.parseLogicalTerm
parseLogicalTermLoop(left, op, m) ==
  parseLogicalTermNext(OperandResult(left, op, m, parseLogicalUnary(m.p)))

parseLogicalTermNext(left) ==
  IF ~IsOk(left) THEN Fail(left.p, left.err)
  ELSE IF ParserPeek(left.p) = AndToken
  THEN parseLogicalTermLoop(left, AndToken, match(left.p, AndToken))
  ELSE Ok(left.p, left.v)

parseLogicalTerm(p) == parseLogicalTermLoop(Start(p), 0, Start(p))

\* Parser.parseLogicalUnary
parseLogicalUnary(p) ==
  IF ParserPeek(p) = NotToken
  THEN LET m == match(p, NotToken)
       IN UnaryResult(NotToken, m, parseLogicalUnary(m.p))
  ELSE parseLogicalFactor(p)

\* Parser.parseLogicalFactor
parseLogicalFactor(p) ==
  IF ParserPeek(p) = LeftParenToken
  THEN LET m == match(p, LeftParenToken)
       IN GroupResult(m, parseLogicalExpression(m.p))
  ELSE parseComparison(p)

ComparisonTokens ==
  {EqualToken, NotEqualToken, GTToken, LTToken, GEQToken, LEQToken}

\* Parser.parseComparison: the left operand (op = 0) and, after one
\* comparison operator, the right operand
parseComparisonOperand(left, op, m) ==
  parseComparisonRight(op, OperandResult(left, op, m, parseExpression(m.p)))

\* a variant in which the right operand may be followed by an operator as
\* well, so that comparisons chain to the left; C26 distinguishes the two
parseComparisonRightChain(op, left) ==
  IF ~IsOk(left) THEN Fail(left.p, left.err)
  ELSE IF ParserPeek(left.p) \in ComparisonTokens
  THEN parseComparisonOperand(left, ParserPeek(left.p),
                              match(left.p, ParserPeek(left.p)))
  ELSE Ok(left.p, left.v)

\* after an operand: only the left operand may be followed by an operator
parseComparisonRight(op, left) ==
  IF ~IsOk(left) THEN Fail(left.p, left.err)
  ELSE IF op = 0 /\ ParserPeek(left.p) \in ComparisonTokens
  THEN parseComparisonOperand(left, ParserPeek(left.p),
                              match(left.p, ParserPeek(left.p)))
  ELSE Ok(left.p, left.v)

parseComparison(p) == parseComparisonOperand(Start(p), 0, Start(p))

\* Parser.parseExpression
parseExpressionLoop(left, op, m) ==
  parseExpressionNext(OperandResult(left, op, m, parseTerm(m.p)))

parseExpressionNext(left) ==
  IF ~IsOk(left) THEN Fail(left.p, left.err)
  ELSE IF ParserPeek(left.p) = PlusToken \/ ParserPeek(left.p) = MinusToken
  THEN parseExpressionLoop(left, ParserPeek(left.p),
                           match(left.p, ParserPeek(left.p)))
  ELSE Ok(left.p, left.v)

parseExpression(p) == parseExpressionLoop(Start(p), 0, Start(p))

\* Parser.parseTerm
parseTermLoop(left, op, m) ==
  parseTermNext(OperandResult(left, op, m, parseUnary(m.p)))

parseTermNext(left) ==
  IF ~IsOk(left) THEN Fail(left.p, left.err)
  ELSE IF ParserPeek(left.p) = MultiplyToken
          \/ ParserPeek(left.p) = DivideToken
  THEN parseTermLoop(left, ParserPeek(left.p),
                     match(left.p, ParserPeek(left.p)))
  ELSE Ok(left.p, left.v)

parseTerm(p) == parseTermLoop(Start(p), 0, Start(p))

\* Parser.parseUnary
parseUnary(p) ==
  IF ParserPeek(p) = MinusToken
  THEN LET m == match(p, MinusToken)
       IN UnaryResult(MinusToken, m, parseUnary(m.p))
  ELSE parseFactor(p)

\* the tail of parseFactor's index: the closing bracket
PostfixResult(primary, m, index) ==
  LET c == match(index.p, RightBracketToken)
  IN IF ~IsOk(m) THEN m
     ELSE IF ~IsOk(index) THEN Fail(index.p, index.err)
     ELSE IF ~IsOk(c) THEN c
     ELSE Ok(c.p, PostfixExpression(primary.v, index.v))

\* Parser.parseFactor: after the primary
parseFactorIndex(primary) ==
  IF ~IsOk(primary) THEN Fail(primary.p, primary.err)
  ELSE IF ParserPeek(primary.p) = LeftBracketToken
  THEN LET m == match(primary.p, LeftBracketToken)
       IN PostfixResult(primary, m, parseExpression(m.p))
  ELSE Ok(primary.p, primary.v)

parseFactor(p) == parseFactorIndex(parsePrimary(p))

\* Parser.parsePrimary
parsePrimary(p) ==
  LET t == ParserPeek(p)
      token == peekToken(p)
      m == match(p, t)
  IN CASE t = LeftParenToken -> GroupResult(m, parseExpression(m.p))
       [] t = NumberToken ->
            IF ~IsOk(m) THEN m
            ELSE Ok(m.p, NumberLiteral(ParseFloat(token.Literal)))
       [] t = StringToken ->
            IF ~IsOk(m) THEN m ELSE Ok(m.p, StringLiteral(token.Literal))
       [] t = TrueToken \/ t = FalseToken ->
            IF ~IsOk(m) THEN m
            ELSE Ok(m.p, BooleanLiteral(token.Type = TrueToken))
       [] t = IdentToken ->
            IF ParserPeek(m.p) = LeftParenToken
            THEN parseFunctionCall(m.p, token)
            ELSE Ok(m.p, Identifier(token))
       [] t = LeftBracketToken -> parseArrayLiteral(p)
       [] OTHER ->
            Fail(p, ParserError(p, "unexpected token in primary expression"))

\* Parser.parseArrayLiteral: the element loop
parseArrayElements(p, elements) ==
  IF ParserPeek(p) # RightBracketToken
  THEN parseArrayElement(elements, parseLogicalExpression(p))
  ELSE Ok(p, elements)

\* one round of the loop, after the element's expression
parseArrayElement(elements, exp) ==
  LET m == IF ParserPeek(exp.p) = CommaToken
           THEN match(exp.p, CommaToken) ELSE Ok(exp.p, NilNode)
  IN IF ~IsOk(exp) THEN Fail(exp.p, exp.err)
     ELSE IF ~IsOk(m) THEN m
     ELSE parseArrayElements(m.p, Append(elements, exp.v))

\* the tail of parseArrayLiteral: the closing bracket
ArrayResult(m, elements) ==
  LET c == match(elements.p, RightBracketToken)
  IN IF ~IsOk(m) THEN m
     ELSE IF ~IsOk(elements) THEN Fail(elements.p, elements.err)
     ELSE IF ~IsOk(c) THEN c
     ELSE Ok(c.p, ArrayLiteral(elements.v))

parseArrayLiteral(p) ==
  LET m == match(p, LeftBracketToken)
  IN ArrayResult(m, parseArrayElements(m.p, <<>>))

\* Parser.parseFunctionCall: the loop over ", expr"
parseCallArguments(p, args) ==
  IF ParserPeek(p) = CommaToken
  THEN LET m == match(p, CommaToken)
       IN parseCallArgument(args, parseExpression(m.p))
  ELSE Ok(p, args)

\* after an argument's expression: append it and go on with the loop
parseCallArgument(args, expr) ==
  IF ~IsOk(expr) THEN Fail(expr.p, expr.err)
  ELSE parseCallArguments(expr.p, Append(args, expr.v))

\* the tail of parseFunctionCall: the closing parenthesis
CallResult(ident, m, args) ==
  LET c == match(args.p, RightParenToken)
  IN IF ~IsOk(m) THEN m
     ELSE IF ~IsOk(args) THEN Fail(args.p, args.err)
     ELSE IF ~IsOk(c)
          THEN Fail(c.p, ParserError(c.p, "expected right closing paren."))
     ELSE Ok(c.p, FunctionCallExpression(Identifier(ident), args.v))

parseFunctionCall(p, ident) ==
  LET m == match(p, LeftParenToken)
  IN CallResult(ident, m,
       IF ParserPeek(m.p) # RightParenToken
       THEN parseCallArgument(<<>>, parseExpression(m.p))
       ELSE Ok(m.p, <<>>))

\* the tail of parseDeclareStatement
DeclareResult(identToken, exp) ==
  IF ~IsOk(exp) THEN Fail(exp.p, exp.err)
  ELSE Ok(exp.p, DeclarationStatement(Identifier(identToken), exp.v))

\* Parser.parseDeclareStatement
parseDeclareStatement(p) ==
  LET l == match(p, LetToken)
      identToken == peekToken(l.p)
      i == match(l.p, IdentToken)
      d == match(i.p, DeclareToken)
  IN IF ~IsOk(l) THEN l
     ELSE IF ~IsOk(i) THEN i
     ELSE IF ~IsOk(d) THEN d
     ELSE DeclareResult(identToken, parseLogicalExpression(d.p))

\* the tails of parseAssignStatement
AssignResult(ident, exp) ==
  IF ~IsOk(exp) THEN Fail(exp.p, exp.err)
  ELSE Ok(exp.p, AssignmentStatement(Identifier(ident), exp.v))

IndexAssignResult(ident, index, exp) ==
  IF ~IsOk(exp) THEN Fail(exp.p, exp.err)
  ELSE Ok(exp.p, IndexAssignmentStatement(Identifier(ident), index.v, exp.v))

\* parseAssignStatement's bracket branch, after the index expression
parseAssignStatementIndex(ident, index) ==
  LET c == match(index.p, RightBracketToken)
      a == match(c.p, AssignToken)
  IN IF ~IsOk(index) THEN Fail(index.p, index.err)
     ELSE IF ~IsOk(c) THEN c
     ELSE IF ~IsOk(a) THEN a
     ELSE IndexAssignResult(ident, index, parseLogicalExpression(a.p))

\* Parser.parseAssignStatement
parseAssignStatement(p, ident) ==
  IF ParserPeek(p) = LeftBracketToken
  THEN LET b == match(p, LeftBracketToken)
       IN IF ~IsOk(b) THEN b
          ELSE parseAssignStatementIndex(ident, parseExpression(b.p))
  ELSE LET a == match(p, AssignToken)
       IN IF ~IsOk(a) THEN a
          ELSE AssignResult(ident, parseLogicalExpression(a.p))

\* a variant of the block loop that takes the end of the tokens for the
\* closing brace; C28 distinguishes the two
parseBlockUntilEnd(p, block) ==
  IF ParserPeek(p) # RightBraceToken /\ p.current < Len(p.tokens)
  THEN parseBlockStatement(block, parseStatement(p))
  ELSE Ok(p, block)

\* the block loop of parseIfStatement, parseWhileStatement and
\* parseFunctionStatement: statements up to a right brace
parseBlock(p, block) ==
  IF ParserPeek(p) # RightBraceToken
  THEN parseBlockStatement(block, parseStatement(p))
  ELSE Ok(p, block)

\* one round of the block loop, after its statement
parseBlockStatement(block, stmt) ==
  IF ~IsOk(stmt) THEN Fail(stmt.p, stmt.err)
  ELSE parseBlock(stmt.p, Append(block, stmt.v))

\* the tails of parseIfStatement: "else if" and "else { ... }"
ElseIfResult(cond, thenBlock, elseIf) ==
  IF ~IsOk(elseIf) THEN Fail(elseIf.p, elseIf.err)
  ELSE Ok(elseIf.p, IfStatement(cond.v, thenBlock.v, <<elseIf.v>>))

ElseResult(cond, thenBlock, elseBlock) ==
  LET erb == match(elseBlock.p, RightBraceToken)
  IN IF ~IsOk(elseBlock) THEN Fail(elseBlock.p, elseBlock.err)
     ELSE IF ~IsOk(erb) THEN erb
     ELSE Ok(erb.p, IfStatement(cond.v, thenBlock.v, elseBlock.v))

\* parseIfStatement after the then-block
parseIfStatementElse(cond, thenBlock) ==
  LET rb == match(thenBlock.p, RightBraceToken)
      e == match(rb.p, ElseToken)
      elb == match(e.p, LeftBraceToken)
  IN IF ~IsOk(thenBlock) THEN Fail(thenBlock.p, thenBlock.err)
     ELSE IF ~IsOk(rb) THEN rb
     ELSE IF ParserPeek(rb.p) # ElseToken
          THEN Ok(rb.p, IfStatement(cond.v, thenBlock.v, <<>>))
     ELSE IF ~IsOk(e) THEN e
     ELSE IF ParserPeek(e.p) = IfToken
          THEN ElseIfResult(cond, thenBlock, parseIfStatement(e.p))
     ELSE IF ~IsOk(elb) THEN elb
     ELSE ElseResult(cond, thenBlock, parseBlock(elb.p, <<>>))

\* parseIfStatement after the condition
parseIfStatementThen(cond) ==
  LET lb == match(cond.p, LeftBraceToken)
  IN IF ~IsOk(cond) THEN Fail(cond.p, cond.err)
     ELSE IF ~IsOk(lb) THEN lb
     ELSE parseIfStatementElse(cond, parseBlock(lb.p, <<>>))

\* Parser.parseIfStatement
parseIfStatement(p) ==
  LET i == match(p, IfToken)
  IN IF ~IsOk(i) THEN i
     ELSE parseIfStatementThen(parseLogicalExpression(i.p))

\* the tail of parseWhileStatement
WhileResult(cond, body) ==
  LET rb == match(body.p, RightBraceToken)
  IN IF ~IsOk(body) THEN Fail(body.p, body.err)
     ELSE IF ~IsOk(rb) THEN rb
     ELSE Ok(rb.p, WhileStatement(cond.v, body.v))

\* parseWhileStatement after the condition
parseWhileStatementBody(cond) ==
  LET lb == match(cond.p, LeftBraceToken)
  IN IF ~IsOk(cond) THEN Fail(cond.p, cond.err)
     ELSE IF ~IsOk(lb) THEN lb
     ELSE WhileResult(cond, parseBlock(lb.p, <<>>))

\* Parser.parseWhileStatement
parseWhileStatement(p) ==
  LET w == match(p, WhileToken)
  IN IF ~IsOk(w) THEN w
     ELSE parseWhileStatementBody(parseLogicalExpression(w.p))

\* Parser.parseArgumentStatement
RECURSIVE parseArgumentLoop(_, _)
parseArgumentLoop(p, decls) ==
  IF ParserPeek(p) = CommaToken
  THEN LET m == match(p, CommaToken)
           ident == peekToken(m.p)
           i == match(m.p, IdentToken)
       IN IF ~IsOk(i) THEN i
          ELSE parseArgumentLoop(i.p, Append(decls, Identifier(ident)))
  ELSE Ok(p, decls)

parseArgumentStatement(p) ==
  LET m == match(p, ColonToken)
      ident == peekToken(m.p)
      i == match(m.p, IdentToken)
  IN IF ~IsOk(i) THEN i
     ELSE parseArgumentLoop(i.p, <<Identifier(ident)>>)

\* the tail of parseFunctionStatement; the match of the right brace is not
\* checked
FunctionResult(ident, args, body) ==
  LET rb == match(body.p, RightBraceToken)
  IN IF ~IsOk(body) THEN Fail(body.p, body.err)
     ELSE Ok(rb.p, FunctionStatement(Identifier(ident), args.v, body.v))

\* parseFunctionStatement after the parameter list
parseFunctionStatementBody(ident, args) ==
  LET lb == match(args.p, LeftBraceToken)
  IN IF ~IsOk(args) THEN Fail(args.p, args.err)
     ELSE IF ~IsOk(lb) THEN lb
     ELSE FunctionResult(ident, args, parseBlock(lb.p, <<>>))

\* Parser.parseFunctionStatement
parseFunctionStatement(p) ==
  LET f == match(p, FunctionToken)
      ident == peekToken(f.p)
      i == match(f.p, IdentToken)
  IN IF ~IsOk(f) THEN f
     ELSE IF ~IsOk(i) THEN i
     ELSE parseFunctionStatementBody(ident,
            IF ParserPeek(i.p) = ColonToken
            THEN parseArgumentStatement(i.p) ELSE Ok(i.p, <<>>))

\* the tail of parseReturnStatement
ReturnResult(expr) ==
  IF ~IsOk(expr) THEN Fail(expr.p, expr.err)
  ELSE Ok(expr.p, ReturnStatement(expr.v))

\* Parser.parseReturnStatement
parseReturnStatement(p) ==
  LET m == match(p, ReturnToken)
  IN IF ParserPeek(m.p) = RightBraceToken \/ ParserPeek(m.p) = EOFToken
     THEN Ok(m.p, ReturnStatement(NilNode))
     ELSE ReturnResult(parseExpression(m.p))

\* the tail of parseStatement's expression cases
ExpressionResult(expr) ==
  IF ~IsOk(expr) THEN Fail(expr.p, expr.err)
  ELSE Ok(expr.p, ExpressionStatement(expr.v))

\* Parser.parseStatement
parseStatement(p) ==
  LET t == ParserPeek(p)
      ident == peekToken(p)
      m == match(p, IdentToken)
      \* the default case, reached from an identifier by fallthrough with
      \* the identifier already consumed
      q == IF t = IdentToken THEN m.p ELSE p
  IN CASE t = LetToken -> parseDeclareStatement(p)
       [] t = IfToken -> parseIfStatement(p)
       [] t = WhileToken -> parseWhileStatement(p)
       [] t = FunctionToken -> parseFunctionStatement(p)
       [] t = ReturnToken -> parseReturnStatement(p)
       [] t = IdentToken /\ ParserPeek(m.p) = AssignToken ->
            parseAssignStatement(m.p, ident)
       [] t = IdentToken /\ ParserPeek(m.p) = LeftParenToken ->
            ExpressionResult(parseFunctionCall(m.p, ident))
       [] OTHER -> ExpressionResult(parseLogicalExpression(q))

\* Parser.parseProgram
RECURSIVE parseProgramLoop(_, _)
\* a variant that returns, with the error, the statements parsed before it;
\* C17 distinguishes the two
parseProgramStatementPartial(statements, stmt) ==
  IF ~IsOk(stmt) THEN [statements |-> statements, err |-> stmt.err]
  ELSE parseProgramLoop(stmt.p, Append(statements, stmt.v))

parseProgramStatement(statements, stmt) ==
  IF ~IsOk(stmt) THEN [statements |-> <<>>, err |-> stmt.err]
  ELSE parseProgramLoop(stmt.p, Append(statements, stmt.v))

parseProgramLoop(p, statements) ==
  IF p.current < Len(p.tokens)
  THEN IF ParserPeek(p) = EOFToken
       THEN [statements |-> <<>>, err |-> ParserError(p, "unexpected EOF")]
       ELSE parseProgramStatement(statements, parseStatement(p))
  ELSE [statements |-> statements, err |-> NoParserError]

parseProgram(p) == parseProgramLoop(p, <<>>)

\* Parser.Parse
Parse(p) == parseProgram(p)

\* ------------------------------------------------------------------------
\* parser: Value
\* ------------------------------------------------------------------------
\* ValueType (iota order)
Void == 0
Number == 1
String == 2
Boolean == 3
Array == 4
Function == 5
NativeFunction == 6

\* Func{}; the zero Func has no parameters and no body
Func(argNames, body) == [ArgNames |-> argNames, Body |-> body]

\* Value{}: every field zero, so its Type is Void.  Array is the address of
\* the slice's backing array in the heap (0 for a nil slice): copying a Value
\* copies the address, not the elements.  NativeFunction is the name of the
\* host function ("" for nil).
VoidValue ==
  [Type |-> Void, Number |-> Num(0), Str |-> <<>>, Boolean |-> FALSE,
   Array |-> 0, Function |-> Func(<<>>, <<>>), NativeFunction |-> ""]

NumberValue(x) == [VoidValue EXCEPT !.Type = Number, !.Number = x]

StringValue(x) == [VoidValue EXCEPT !.Type = String, !.Str = x]

BooleanValue(x) == [VoidValue EXCEPT !.Type = Boolean, !.Boolean = x]

ArrayValue(addr) == [VoidValue EXCEPT !.Type = Array, !.Array = addr]

FunctionValue(f) == [VoidValue EXCEPT !.Type = Function, !.Function = f]

NativeFunctionValue(name) ==
  [VoidValue EXCEPT !.Type = NativeFunction, !.NativeFunction = name]

\* ------------------------------------------------------------------------
\* parser: Environment.  The store st holds everything the evaluator can
\* reach: maps (the variables maps), envs (the Environment structs, each
\* naming its map and its parent, 0 for nil), heap (the backing arrays of the
\* slices) and out (the lines print has written).
\* ------------------------------------------------------------------------
print == <<"p","r","i","n","t">>

\* the package-level map defaultVars is map 1 of every store
defaultVars == 1

InitialStore ==
  [maps |-> << [name \in {print} |-> NativeFunctionValue("print")] >>,
   envs |-> <<>>, heap |-> <<>>, out |-> <<>>]

EmptyMap == [name \in {} |-> VoidValue]

\* NewEnvironment: a new map and a new Environment that names it
NewEnvironment(st, parent) ==
  LET maps1 == Append(st.maps, EmptyMap)
      envs1 == Append(st.envs, [variables |-> Len(maps1), parent |-> parent])
  IN [st |-> [st EXCEPT !.maps = maps1, !.envs = envs1], env |-> Len(envs1)]

\* NewDefaultEnvironment: a new Environment whose map is defaultVars itself
NewDefaultEnvironment(st) ==
  LET envs1 == Append(st.envs, [variables |-> defaultVars, parent |-> 0])
  IN [st |-> [st EXCEPT !.envs = envs1], env |-> Len(envs1)]

\* env.variables
Variables(st, env) == st.maps[st.envs[env].variables]

\* env.variables[name] = value
MapStore(st, env, name, value) ==
  LET m == Variables(st, env)
  IN [st EXCEPT !.maps[st.envs[env].variables] =
        [n \in DOMAIN m \cup {name} |-> IF n = name THEN value ELSE m[n]]]

\* Environment.Set
RECURSIVE Set(_, _, _, _)
Set(st, env, name, value) ==
  IF name \in DOMAIN Variables(st, env) THEN MapStore(st, env, name, value)
  ELSE IF st.envs[env].parent # 0
       THEN Set(st, st.envs[env].parent, name, value)
       ELSE MapStore(st, env, name, value)

\* Environment.Define
Define(st, env, name, value) == MapStore(st, env, name, value)

\* a variant of Environment.Get that looks in the map of env only; C12
\* distinguishes the two
GetLocal(st, env, name) ==
  LET ok == name \in DOMAIN Variables(st, env)
  IN [value |-> IF ok THEN Variables(st, env)[name] ELSE VoidValue, ok |-> ok]

\* Environment.Get
RECURSIVE Get(_, _, _)
Get(st, env, name) ==
  LET ok == name \in DOMAIN Variables(st, env)
  IN IF ~ok /\ st.envs[env].parent # 0
     THEN Get(st, st.envs[env].parent, name)
     ELSE [value |-> IF ok THEN Variables(st, env)[name] ELSE VoidValue,
           ok |-> ok]

\* len(v.Array) and v.Array as a sequence
ArrayLen(st, v) == IF v.Array = 0 THEN 0 ELSE Len(st.heap[v.Array])

\* Value.AsBoolean
AsBoolean(st, v) ==
  CASE v.Type = Void -> FALSE
    [] v.Type = Number -> v.Number.n # 0
    [] v.Type = Boolean -> v.Boolean
    [] v.Type = Array -> ArrayLen(st, v) > 0
    [] v.Type = String -> Len(v.Str) > 0
    [] OTHER -> TRUE

\* ------------------------------------------------------------------------
\* parser: evaluation.  An error is nil (NoError), a runtime error made by
\* fmt.Errorf, or a *ReturnSignal carrying a Value.  Name is the name the
\* message is formatted with; Env records the Environment the error was
\* raised in (history only: nothing reads it to decide what to do).
\* ------------------------------------------------------------------------
NoError ==
  [Kind |-> "nil", Msg |-> "", Name |-> <<>>, Env |-> 0, Value |-> VoidValue]

Errorf(msg, name, env) ==
  [Kind |-> "error", Msg |-> msg, Name |-> name, Env |-> env,
   Value |-> VoidValue]

\* &ReturnSignal{Value: v}
ReturnSignal(v) ==
  [Kind |-> "ReturnSignal", Msg |-> "return signal", Name |-> <<>>, Env |-> 0,
   Value |-> v]

\* errors.As(err, &ret) with ret a *ReturnSignal
IsReturnSignal(err) == err.Kind = "ReturnSignal"

\* (Value, error) of Eval and error of Execute, with the store after the call
Val(st, v) == [st |-> st, v |-> v, err |-> NoError]

Err(st, err) == [st |-> st, v |-> VoidValue, err |-> err]

RECURSIVE Eval(_, _, _), Execute(_, _, _), ExecuteBlock(_, _, _, _),
          EvalElements(_, _, _, _, _), WhileLoop(_, _, _),
          BindArguments(_, _, _, _, _, _), CallBody(_, _, _, _)

\* the loop of ArrayLiteral.Eval and of the native call: the expressions
\* from i on, left to right, appended to values
EvalElements(elems, i, values, env, st) ==
  IF i > Len(elems) THEN Val(st, values)
  ELSE LET r == Eval(elems[i], env, st)
       IN IF r.err # NoError THEN Err(r.st, r.err)
          ELSE EvalElements(elems, i + 1, Append(values, r.v), env, r.st)

\* ArrayLiteral.Eval: values stays a nil slice when there is no element
ArrayLiteralEval(a, env, st) ==
  LET r == EvalElements(a.Elements, 1, <<>>, env, st)
      heap1 == Append(r.st.heap, r.v)
  IN IF r.err # NoError THEN Err(r.st, r.err)
     ELSE IF r.v = <<>> THEN Val(r.st, ArrayValue(0))
     ELSE Val([r.st EXCEPT !.heap = heap1], ArrayValue(Len(heap1)))

\* Identifier.Eval
IdentifierEval(i, env, st) ==
  LET g == Get(st, env, i.Name)
  IN IF g.ok THEN Val(st, g.value)
     ELSE Err(st, Errorf("undefined variable", i.Name, env))

\* a variant of the operator switch without the check of the divisor: the
\* quotient by 0 is the fraction with denominator 0, which stands for the
\* infinity or NaN float64 division yields; C16 distinguishes the two
BinaryOperationNoZeroCheck(op, left, right, env, st) ==
  CASE left.Type = Number ->
         CASE op = PlusToken ->
                Val(st, NumberValue(RatAdd(left.Number, right.Number)))
           [] op = MinusToken ->
                Val(st, NumberValue(RatSub(left.Number, right.Number)))
           [] op = MultiplyToken ->
                Val(st, NumberValue(RatMul(left.Number, right.Number)))
           [] op = DivideToken ->
                IF right.Number.n = 0
                THEN Val(st, NumberValue([n |-> left.Number.n, d |-> 0]))
                ELSE Val(st, NumberValue(RatDiv(left.Number, right.Number)))
           [] op = EqualToken ->
                Val(st, BooleanValue(left.Number = right.Number))
           [] op = NotEqualToken ->
                Val(st, BooleanValue(left.Number # right.Number))
           [] op = LTToken ->
                Val(st, BooleanValue(RatLess(left.Number, right.Number)))
           [] op = LEQToken ->
                Val(st, BooleanValue(~RatLess(right.Number, left.Number)))
           [] op = GTToken ->
                Val(st, BooleanValue(RatLess(right.Number, left.Number)))
           [] op = GEQToken ->
                Val(st, BooleanValue(~RatLess(left.Number, right.Number)))
           [] OTHER -> Err(st, Errorf("unknown operator", <<>>, env))
    [] left.Type = String ->
         CASE op = PlusToken -> Val(st, StringValue(left.Str \o right.Str))
           [] op = EqualToken -> Val(st, BooleanValue(left.Str = right.Str))
           [] op = NotEqualToken -> Val(st, BooleanValue(left.Str # right.Str))
           [] OTHER ->
                Err(st, Errorf("unknown operator for strings", <<>>, env))
    [] left.Type = Boolean ->
         CASE op = EqualToken ->
                Val(st, BooleanValue(left.Boolean = right.Boolean))
           [] op = NotEqualToken ->
                Val(st, BooleanValue(left.Boolean # right.Boolean))
           [] op = AndToken ->
                Val(st, BooleanValue(left.Boolean /\ right.Boolean))
           [] op = OrToken ->
                Val(st, BooleanValue(left.Boolean \/ right.Boolean))
           [] OTHER ->
                Err(st, Errorf("unknown operator for booleans", <<>>, env))
    [] OTHER ->
         Err(st, Errorf("unsupported type for binary operation", <<>>, env))

\* the operator switch of BinaryExpression.Eval, operands of one type
BinaryOperation(op, left, right, env, st) ==
  CASE left.Type = Number ->
         CASE op = PlusToken ->
                Val(st, NumberValue(RatAdd(left.Number, right.Number)))
           [] op = MinusToken ->
                Val(st, NumberValue(RatSub(left.Number, right.Number)))
           [] op = MultiplyToken ->
                Val(st, NumberValue(RatMul(left.Number, right.Number)))
           [] op = DivideToken ->
                IF right.Number.n = 0
                THEN Err(st, Errorf("division by zero", <<>>, env))
                ELSE Val(st, NumberValue(RatDiv(left.Number, right.Number)))
           [] op = EqualToken ->
                Val(st, BooleanValue(left.Number = right.Number))
           [] op = NotEqualToken ->
                Val(st, BooleanValue(left.Number # right.Number))
           [] op = LTToken ->
                Val(st, BooleanValue(RatLess(left.Number, right.Number)))
           [] op = LEQToken ->
                Val(st, BooleanValue(~RatLess(right.Number, left.Number)))
           [] op = GTToken ->
                Val(st, BooleanValue(RatLess(right.Number, left.Number)))
           [] op = GEQToken ->
                Val(st, BooleanValue(~RatLess(left.Number, right.Number)))
           [] OTHER -> Err(st, Errorf("unknown operator", <<>>, env))
    [] left.Type = String ->
         CASE op = PlusToken -> Val(st, StringValue(left.Str \o right.Str))
           [] op = EqualToken -> Val(st, BooleanValue(left.Str = right.Str))
           [] op = NotEqualToken -> Val(st, BooleanValue(left.Str # right.Str))
           [] OTHER ->
                Err(st, Errorf("unknown operator for strings", <<>>, env))
    [] left.Type = Boolean ->
         CASE op = EqualToken ->
                Val(st, BooleanValue(left.Boolean = right.Boolean))
           [] op = NotEqualToken ->
                Val(st, BooleanValue(left.Boolean # right.Boolean))
           [] op = AndToken ->
                Val(st, BooleanValue(left.Boolean /\ right.Boolean))
           [] op = OrToken ->
                Val(st, BooleanValue(left.Boolean \/ right.Boolean))
           [] OTHER ->
                Err(st, Errorf("unknown operator for booleans", <<>>, env))
    [] OTHER ->
         Err(st, Errorf("unsupported type for binary operation", <<>>, env))

\* a variant of BinaryExpression.Eval in which `&&` and `||` leave the right
\* operand alone when the left one settles the result; C30 distinguishes
\* the two
BinaryExpressionEvalShortCircuit(b, env, st) ==
  LET left == Eval(b.Left, env, st)
      right == Eval(b.Right, env, left.st)
  IN IF left.err # NoError THEN Err(left.st, left.err)
     ELSE IF /\ left.v.Type = Boolean
             /\ \/ b.Op = AndToken /\ ~left.v.Boolean
                \/ b.Op = OrToken /\ left.v.Boolean
          THEN Val(left.st, left.v)
     ELSE IF right.err # NoError THEN Err(right.st, right.err)
     ELSE IF left.v.Type # right.v.Type
          THEN Err(right.st, Errorf("type mismatch", <<>>, env))
     ELSE BinaryOperation(b.Op, left.v, right.v, env, right.st)

\* BinaryExpression.Eval
BinaryExpressionEval(b, env, st) ==
  LET left == Eval(b.Left, env, st)
      right == Eval(b.Right, env, left.st)
  IN IF left.err # NoError THEN Err(left.st, left.err)
     ELSE IF right.err # NoError THEN Err(right.st, right.err)
     ELSE IF left.v.Type # right.v.Type
          THEN Err(right.st, Errorf("type mismatch", <<>>, env))
     ELSE BinaryOperation(b.Op, left.v, right.v, env, right.st)

\* UnaryExpression.Eval
UnaryExpressionEval(u, env, st) ==
  LET r == Eval(u.Right, env, st)
  IN IF r.err # NoError THEN Err(r.st, r.err)
     ELSE CASE r.v.Type = Number ->
                 IF u.Op = MinusToken
                 THEN Val(r.st, NumberValue(RatNeg(r.v.Number)))
                 ELSE Err(r.st, Errorf("unknown unary operator", <<>>, env))
            [] r.v.Type = Boolean ->
                 IF u.Op = NotToken
                 THEN Val(r.st, BooleanValue(~r.v.Boolean))
                 ELSE Err(r.st,
                        Errorf("unknown unary operator for boolean", <<>>, env))
            [] OTHER ->
                 Err(r.st,
                     Errorf("unsupported type for unary operation", <<>>, env))

\* PostfixExpression.Eval
PostfixExpressionEval(p, env, st) ==
  LET left == Eval(p.Left, env, st)
      index == Eval(p.Index, env, left.st)
      i == RatInt(index.v.Number)
  IN IF left.err # NoError THEN Err(left.st, left.err)
     ELSE IF index.err # NoError THEN Err(index.st, index.err)
     ELSE IF left.v.Type # Array
          THEN Err(index.st,
                 Errorf("left side of postfix expression must be an array",
                        <<>>, env))
     ELSE IF index.v.Type # Number
          THEN Err(index.st, Errorf("index must be a number", <<>>, env))
     ELSE IF i < 0 \/ i >= ArrayLen(index.st, left.v)
          THEN Err(index.st, Errorf("index out of bounds", <<>>, env))
     ELSE Val(index.st, index.st.heap[left.v.Array][i + 1])

\* the native function print of defaultVars
NativePrint(vs, env, st) ==
  IF Len(vs) < 1
  THEN Err(st, Errorf("print expects at least 1 value", <<>>, env))
  ELSE Val([st EXCEPT !.out = Append(st.out, vs)], VoidValue)

\* a variant of the argument loop that evaluates each argument in funcEnv,
\* where the parameters bound so far are visible; C23 distinguishes the two
BindArgumentsInFrame(f, funcVal, i, env, funcEnv, st) ==
  IF i > Len(f.Args) THEN Val(st, VoidValue)
  ELSE LET val == Eval(f.Args[i], funcEnv, st)
       IN IF val.err # NoError THEN Err(val.st, val.err)
          ELSE BindArguments(f, funcVal, i + 1, env, funcEnv,
                 Define(val.st, funcEnv, funcVal.ArgNames[i], val.v))

\* the argument loop of FunctionCallExpression.Eval: each argument is
\* evaluated in env and defined in funcEnv
BindArguments(f, funcVal, i, env, funcEnv, st) ==
  IF i > Len(f.Args) THEN Val(st, VoidValue)
  ELSE LET val == Eval(f.Args[i], env, st)
       IN IF val.err # NoError THEN Err(val.st, val.err)
          ELSE BindArguments(f, funcVal, i + 1, env, funcEnv,
                 Define(val.st, funcEnv, funcVal.ArgNames[i], val.v))

\* a variant of the body loop that passes a return signal on to its caller
\* like any other error; C6 distinguishes the two
CallBodyNoCatch(body, i, funcEnv, st) ==
  IF i > Len(body) THEN Val(st, VoidValue)
  ELSE LET r == Execute(body[i], funcEnv, st)
       IN IF r.err # NoError THEN Err(r.st, r.err)
          ELSE CallBody(body, i + 1, funcEnv, r.st)

\* a variant of the body loop that ends the call with the Void result when a
\* statement of the body returns a runtime error; C25 distinguishes the two
CallBodyRecover(body, i, funcEnv, st) ==
  IF i > Len(body) THEN Val(st, VoidValue)
  ELSE LET r == Execute(body[i], funcEnv, st)
       IN IF IsReturnSignal(r.err) THEN Val(r.st, r.err.Value)
          ELSE IF r.err # NoError THEN Val(r.st, VoidValue)
          ELSE CallBody(body, i + 1, funcEnv, r.st)

\* the body loop of FunctionCallExpression.Eval
CallBody(body, i, funcEnv, st) ==
  IF i > Len(body) THEN Val(st, VoidValue)
  ELSE LET r == Execute(body[i], funcEnv, st)
       IN IF IsReturnSignal(r.err) THEN Val(r.st, r.err.Value)
          ELSE IF r.err # NoError THEN Err(r.st, r.err)
          ELSE CallBody(body, i + 1, funcEnv, r.st)

\* a variant of FunctionCallExpression.Eval without the check for too few
\* arguments; C7 distinguishes the two
FunctionCallExpressionEvalNoTooFew(f, env, st) ==
  LET g == Get(st, env, f.Name.Name)
      resolved == g.value
      args == EvalElements(f.Args, 1, <<>>, env, st)
      funcVal == resolved.Function
      n == NewEnvironment(st, env)
      bound == BindArguments(f, funcVal, 1, env, n.env, n.st)
  IN IF ~g.ok THEN Err(st, Errorf("undefined function", f.Name.Name, env))
     ELSE IF resolved.Type = NativeFunction
          THEN IF args.err # NoError THEN Err(args.st, args.err)
               ELSE NativePrint(args.v, env, args.st)
     ELSE IF resolved.Type # Function
          THEN Err(st, Errorf("function call to non-function type",
                              f.Name.Name, env))
     ELSE IF Len(f.Args) > Len(funcVal.ArgNames)
          THEN Err(st, Errorf("too many arguments for function",
                              f.Name.Name, env))
     ELSE IF bound.err # NoError THEN Err(bound.st, bound.err)
     ELSE CallBody(funcVal.Body, 1, n.env, bound.st)

\* FunctionCallExpression.Eval
FunctionCallExpressionEval(f, env, st) ==
  LET g == Get(st, env, f.Name.Name)
      resolved == g.value
      args == EvalElements(f.Args, 1, <<>>, env, st)
      funcVal == resolved.Function
      n == NewEnvironment(st, env)
      bound == BindArguments(f, funcVal, 1, env, n.env, n.st)
  IN IF ~g.ok THEN Err(st, Errorf("undefined function", f.Name.Name, env))
     ELSE IF resolved.Type = NativeFunction
          THEN IF args.err # NoError THEN Err(args.st, args.err)
               ELSE NativePrint(args.v, env, args.st)
     ELSE IF resolved.Type # Function
          THEN Err(st, Errorf("function call to non-function type",
                              f.Name.Name, env))
     ELSE IF Len(f.Args) > Len(funcVal.ArgNames)
          THEN Err(st, Errorf("too many arguments for function",
                              f.Name.Name, env))
     ELSE IF Len(f.Args) < Len(funcVal.ArgNames)
          THEN Err(st, Errorf("too few arguments for function",
                              f.Name.Name, env))
     ELSE IF bound.err # NoError THEN Err(bound.st, bound.err)
     ELSE CallBody(funcVal.Body, 1, n.env, bound.st)

\* Expression.Eval: dispatch on the node type
Eval(e, env, st) ==
  CASE e.node = "NumberLiteral" -> Val(st, NumberValue(e.Value))
    [] e.node = "StringLiteral" -> Val(st, StringValue(e.Value))
    [] e.node = "BooleanLiteral" -> Val(st, BooleanValue(e.Value))
    [] e.node = "ArrayLiteral" -> ArrayLiteralEval(e, env, st)
    [] e.node = "Identifier" -> IdentifierEval(e, env, st)
    [] e.node = "BinaryExpression" -> BinaryExpressionEval(e, env, st)
    [] e.node = "UnaryExpression" -> UnaryExpressionEval(e, env, st)
    [] e.node = "PostfixExpression" -> PostfixExpressionEval(e, env, st)
    [] e.node = "FunctionCallExpression" ->
         FunctionCallExpressionEval(e, env, st)

\* the statement loops of IfStatement.Execute and WhileStatement.Execute:
\* the first error (a return signal included) ends the loop and is returned
ExecuteBlock(stmts, i, env, st) ==
  IF i > Len(stmts) THEN Err(st, NoError)
  ELSE LET r == Execute(stmts[i], env, st)
       IN IF r.err # NoError THEN Err(r.st, r.err)
          ELSE ExecuteBlock(stmts, i + 1, env, r.st)

\* a variant of DeclarationStatement.Execute without the lookup of the
\* declared name; C10 distinguishes the two
DeclarationStatementExecuteNoCheck(d, env, st) ==
  LET value == Eval(d.Value, env, st)
  IN IF value.err # NoError THEN Err(value.st, value.err)
     ELSE Err(Define(value.st, env, d.Identifier.Name, value.v), NoError)

\* DeclarationStatement.Execute
DeclarationStatementExecute(d, env, st) ==
  LET g == Get(st, env, d.Identifier.Name)
      value == Eval(d.Value, env, st)
  IN IF g.ok
     THEN Err(st, Errorf("variable already declared", d.Identifier.Name, env))
     ELSE IF value.err # NoError THEN Err(value.st, value.err)
     ELSE Err(Define(value.st, env, d.Identifier.Name, value.v), NoError)

\* a variant of AssignmentStatement.Execute without the test that some frame
\* binds the name; C9 distinguishes the two
AssignmentStatementExecuteUnchecked(a, env, st) ==
  LET value == Eval(a.Value, env, st)
  IN IF value.err # NoError THEN Err(value.st, value.err)
     ELSE Err(Set(value.st, env, a.Identifier.Name, value.v), NoError)

\* AssignmentStatement.Execute
AssignmentStatementExecute(a, env, st) ==
  LET g == Get(st, env, a.Identifier.Name)
      value == Eval(a.Value, env, st)
  IN IF ~g.ok
     THEN Err(st, Errorf("undefined variable", a.Identifier.Name, env))
     ELSE IF value.err # NoError THEN Err(value.st, value.err)
     ELSE Err(Set(value.st, env, a.Identifier.Name, value.v), NoError)

\* a variant of IndexAssignmentStatement.Execute that writes the element
\* into a copy of the array and binds the name to the copy; C14 distinguishes
\* the two
IndexAssignmentStatementExecuteCopy(s, env, st) ==
  LET g == Get(st, env, s.Left.Name)
      arr == g.value
      index == Eval(s.Index, env, st)
      value == Eval(s.Value, env, index.st)
      i == RatInt(index.v.Number)
      heap1 == Append(value.st.heap,
                      [value.st.heap[arr.Array] EXCEPT ![i + 1] = value.v])
  IN IF ~g.ok THEN Err(st, Errorf("undefined variable", s.Left.Name, env))
     ELSE IF arr.Type # Array
          THEN Err(st, Errorf("left side of index assignment must be an array",
                              s.Left.Name, env))
     ELSE IF index.err # NoError THEN Err(index.st, index.err)
     ELSE IF value.err # NoError THEN Err(value.st, value.err)
     ELSE IF index.v.Type # Number
          THEN Err(value.st, Errorf("index must be a number", <<>>, env))
     ELSE IF i < 0 \/ i >= ArrayLen(value.st, arr)
          THEN Err(value.st, Errorf("index out of bounds", <<>>, env))
     ELSE Err(Set([value.st EXCEPT !.heap = heap1], env, s.Left.Name,
                  ArrayValue(Len(heap1))),
              NoError)

\* a variant of IndexAssignmentStatement.Execute whose bounds check lets the
\* index equal to the length pass; C15 distinguishes the two
IndexAssignmentStatementExecuteOffByOne(s, env, st) ==
  LET g == Get(st, env, s.Left.Name)
      arr == g.value
      index == Eval(s.Index, env, st)
      value == Eval(s.Value, env, index.st)
      i == RatInt(index.v.Number)
  IN IF ~g.ok THEN Err(st, Errorf("undefined variable", s.Left.Name, env))
     ELSE IF arr.Type # Array
          THEN Err(st, Errorf("left side of index assignment must be an array",
                              s.Left.Name, env))
     ELSE IF index.err # NoError THEN Err(index.st, index.err)
     ELSE IF value.err # NoError THEN Err(value.st, value.err)
     ELSE IF index.v.Type # Number
          THEN Err(value.st, Errorf("index must be a number", <<>>, env))
     ELSE IF i < 0 \/ i > ArrayLen(value.st, arr)
          THEN Err(value.st, Errorf("index out of bounds", <<>>, env))
     ELSE IF i = ArrayLen(value.st, arr) THEN Err(value.st, NoError)
     ELSE Err([value.st EXCEPT !.heap[arr.Array][i + 1] = value.v], NoError)

\* IndexAssignmentStatement.Execute: arr is the Value read before the index
\* and the value are evaluated; the element is written into its backing
\* array
IndexAssignmentStatementExecute(s, env, st) ==
  LET g == Get(st, env, s.Left.Name)
      arr == g.value
      index == Eval(s.Index, env, st)
      value == Eval(s.Value, env, index.st)
      i == RatInt(index.v.Number)
  IN IF ~g.ok THEN Err(st, Errorf("undefined variable", s.Left.Name, env))
     ELSE IF arr.Type # Array
          THEN Err(st, Errorf("left side of index assignment must be an array",
                              s.Left.Name, env))
     ELSE IF index.err # NoError THEN Err(index.st, index.err)
     ELSE IF value.err # NoError THEN Err(value.st, value.err)
     ELSE IF index.v.Type # Number
          THEN Err(value.st, Errorf("index must be a number", <<>>, env))
     ELSE IF i < 0 \/ i >= ArrayLen(value.st, arr)
          THEN Err(value.st, Errorf("index out of bounds", <<>>, env))
     ELSE Err([value.st EXCEPT !.heap[arr.Array][i + 1] = value.v], NoError)

\* a variant of IfStatement.Execute that goes on with the else-block after
\* the then-block; C27 distinguishes the two
IfStatementExecuteFallThrough(s, env, st) ==
  LET val == Eval(s.Condition, env, st)
      child == NewEnvironment(val.st, env)
      then == ExecuteBlock(s.Then, 1, child.env, child.st)
  IN IF val.err # NoError THEN Err(val.st, val.err)
     ELSE IF val.v.Type # Boolean
          THEN Err(val.st,
                   Errorf("condition must evaluate to boolean", <<>>, env))
     ELSE IF val.v.Boolean
          THEN IF then.err # NoError THEN Err(then.st, then.err)
               ELSE ExecuteBlock(s.Else, 1, child.env, then.st)
          ELSE ExecuteBlock(s.Else, 1, child.env, child.st)

\* IfStatement.Execute
IfStatementExecute(s, env, st) ==
  LET val == Eval(s.Condition, env, st)
      child == NewEnvironment(val.st, env)
  IN IF val.err # NoError THEN Err(val.st, val.err)
     ELSE IF val.v.Type # Boolean
          THEN Err(val.st,
                   Errorf("condition must evaluate to boolean", <<>>, env))
     ELSE IF val.v.Boolean
          THEN ExecuteBlock(s.Then, 1, child.env, child.st)
          ELSE ExecuteBlock(s.Else, 1, child.env, child.st)

\* a variant of the loop that runs the body in env itself, without a child
\* Environment; C24 distinguishes the two
WhileLoopNoFrame(w, env, st) ==
  LET val == Eval(w.Condition, env, st)
      body == ExecuteBlock(w.Body, 1, env, val.st)
  IN IF val.err # NoError THEN Err(val.st, val.err)
     ELSE IF val.v.Type # Boolean
          THEN Err(val.st,
                   Errorf("condition must evaluate to boolean", <<>>, env))
     ELSE IF ~val.v.Boolean THEN Err(val.st, NoError)
     ELSE IF body.err # NoError THEN Err(body.st, body.err)
     ELSE WhileLoop(w, env, body.st)

\* WhileStatement.Execute: each pass evaluates the condition in env, then
\* runs the body in a new child Environment
WhileLoop(w, env, st) ==
  LET val == Eval(w.Condition, env, st)
      child == NewEnvironment(val.st, env)
      body == ExecuteBlock(w.Body, 1, child.env, child.st)
  IN IF val.err # NoError THEN Err(val.st, val.err)
     ELSE IF val.v.Type # Boolean
          THEN Err(val.st,
                   Errorf("condition must evaluate to boolean", <<>>, env))
     ELSE IF ~val.v.Boolean THEN Err(val.st, NoError)
     ELSE IF body.err # NoError THEN Err(body.st, body.err)
     ELSE WhileLoop(w, env, body.st)

WhileStatementExecute(w, env, st) == WhileLoop(w, env, st)

\* ExpressionStatement.Execute
ExpressionStatementExecute(e, env, st) ==
  LET r == Eval(e.Expr, env, st) IN Err(r.st, r.err)

\* the argNames loop of FunctionStatement.Execute
ArgNames(args) == [i \in 1..Len(args) |-> args[i].Name]

\* FunctionStatement.Execute
FunctionStatementExecute(f, env, st) ==
  Err(Set(st, env, f.Name.Name, FunctionValue(Func(ArgNames(f.Args), f.Body))),
      NoError)

\* a variant of ReturnStatement.Execute that drops the value of its
\* expression; C8 distinguishes the two
ReturnStatementExecuteVoid(r, env, st) ==
  LET val == Eval(r.Return, env, st)
  IN IF r.Return.node = "nil" THEN Err(st, ReturnSignal(VoidValue))
     ELSE IF val.err # NoError THEN Err(val.st, val.err)
     ELSE Err(val.st, ReturnSignal(VoidValue))

\* ReturnStatement.Execute
ReturnStatementExecute(r, env, st) ==
  LET val == Eval(r.Return, env, st)
  IN IF r.Return.node = "nil" THEN Err(st, ReturnSignal(VoidValue))
     ELSE IF val.err # NoError THEN Err(val.st, val.err)
     ELSE Err(val.st, ReturnSignal(val.v))

\* Statement.Execute: dispatch on the node type
Execute(s, env, st) ==
  CASE s.node = "DeclarationStatement" -> DeclarationStatementExecute(s, env, st)
    [] s.node = "AssignmentStatement" -> AssignmentStatementExecute(s, env, st)
    [] s.node = "IndexAssignmentStatement" ->
         IndexAssignmentStatementExecute(s, env, st)
    [] s.node = "IfStatement" -> IfStatementExecute(s, env, st)
    [] s.node = "WhileStatement" -> WhileStatementExecute(s, env, st)
    [] s.node = "ExpressionStatement" -> ExpressionStatementExecute(s, env, st)
    [] s.node = "FunctionStatement" -> FunctionStatementExecute(s, env, st)
    [] s.node = "ReturnStatement" -> ReturnStatementExecute(s, env, st)

\* ------------------------------------------------------------------------
\* the programs the interpreter is run on
\* ------------------------------------------------------------------------
\* the number literals of the program families range over 0..MaxNum
MaxNum == 2

Nums == 0..MaxNum

\* the one-digit literal of n
Literal(n) == <<CHOOSE c \in Digits : DigitValue(c) = n>>

\* let s := "ab
SrcUnterminatedString ==
  <<"l","e","t"," ","s"," ",":","="," ","\"","a","b">>

\* let x := true & false
SrcLoneAmpersand ==
  <<"l","e","t"," ","x"," ",":","="," ","t","r","u","e"," ","&"," ","f","a",
    "l","s","e">>

\* let x := true | false
SrcLonePipe ==
  <<"l","e","t"," ","x"," ",":","="," ","t","r","u","e"," ","|"," ","f","a",
    "l","s","e">>

\* let x := 1 ; x = 2
SrcUnexpectedCharacter ==
  <<"l","e","t"," ","x"," ",":","="," ","1"," ",";"," ","x"," ","="," ","2">>

\* let s := "a" + "b"
SrcStrings ==
  <<"l","e","t"," ","s"," ",":","="," ","\"","a","\""," ","+"," ","\"","b",
    "\"">>

\* let x := true && false || !false
SrcLogical ==
  <<"l","e","t"," ","x"," ",":","="," ","t","r","u","e"," ","&","&"," ","f",
    "a","l","s","e"," ","|","|"," ","!","f","a","l","s","e">>

\* let x := 1 if true { let x := 2 }
SrcShadowIf ==
  <<"l","e","t"," ","x"," ",":","="," ","1"," ","i","f"," ","t","r","u","e",
    " ","{"," ","l","e","t"," ","x"," ",":","="," ","2"," ","}">>

\* let x := 1 let i := 0 while i < 1 { let x := 2 i = i + 1 }
SrcShadowWhile ==
  <<"l","e","t"," ","x"," ",":","="," ","1"," ","l","e","t"," ","i"," ",":",
    "="," ","0"," ","w","h","i","l","e"," ","i"," ","<"," ","1"," ","{"," ",
    "l","e","t"," ","x"," ",":","="," ","2"," ","i"," ","="," ","i"," ","+",
    " ","1"," ","}">>

\* let x := 1 func f { let x := 2 } f()
SrcShadowCall ==
  <<"l","e","t"," ","x"," ",":","="," ","1"," ","f","u","n","c"," ","f"," ",
    "{"," ","l","e","t"," ","x"," ",":","="," ","2"," ","}"," ","f","(",")">>

\* let x := 1 if true { let y := 2 }
SrcLocalIf ==
  <<"l","e","t"," ","x"," ",":","="," ","1"," ","i","f"," ","t","r","u","e",
    " ","{"," ","l","e","t"," ","y"," ",":","="," ","2"," ","}">>

\* let a := [1,2,3] a[1] = 9 let r := a[1]
SrcIndexAssign ==
  <<"l","e","t"," ","a"," ",":","="," ","[","1",",","2",",","3","]"," ","a",
    "[","1","]"," ","="," ","9"," ","l","e","t"," ","r"," ",":","="," ","a",
    "[","1","]">>

\* let a := [1,2,3] let r := a[1]
SrcIndexRead ==
  <<"l","e","t"," ","a"," ",":","="," ","[","1",",","2",",","3","]"," ","l",
    "e","t"," ","r"," ",":","="," ","a","[","1","]">>

\* let r := {a} + {b} * {c}
SrcPrecedence(a, b, c) ==
  <<"l","e","t"," ","r"," ",":","="," ">> \o
  Literal(a) \o
  <<" ","+"," ">> \o
  Literal(b) \o
  <<" ","*"," ">> \o
  Literal(c)

\* let r := -{a} * -{b}
SrcUnaryMinus(a, b) ==
  <<"l","e","t"," ","r"," ",":","="," ","-">> \o
  Literal(a) \o
  <<" ","*"," ","-">> \o
  Literal(b)

\* let r := ({a} + {b}) * {c}
SrcGroupDeclare(a, b, c) ==
  <<"l","e","t"," ","r"," ",":","="," ","(">> \o
  Literal(a) \o
  <<" ","+"," ">> \o
  Literal(b) \o
  <<")"," ","*"," ">> \o
  Literal(c)

\* let r := 0 r = (1 + 2) * 3
SrcGroupAssign ==
  <<"l","e","t"," ","r"," ",":","="," ","0"," ","r"," ","="," ","(","1"," ",
    "+"," ","2",")"," ","*"," ","3">>

\* let r := 0 if (1 + 2) * 3 == 9 { r = 9 }
SrcGroupCondition ==
  <<"l","e","t"," ","r"," ",":","="," ","0"," ","i","f"," ","(","1"," ","+",
    " ","2",")"," ","*"," ","3"," ","=","="," ","9"," ","{"," ","r"," ","=",
    " ","9"," ","}">>

\* func id: a { return a } let r := id((1 + 2) * 3)
SrcGroupArgument ==
  <<"f","u","n","c"," ","i","d",":"," ","a"," ","{"," ","r","e","t","u","r",
    "n"," ","a"," ","}"," ","l","e","t"," ","r"," ",":","="," ","i","d","(",
    "(","1"," ","+"," ","2",")"," ","*"," ","3",")">>

\* let r := 0 r = 1 + 2 * 3
SrcPrecedenceAssign ==
  <<"l","e","t"," ","r"," ",":","="," ","0"," ","r"," ","="," ","1"," ","+",
    " ","2"," ","*"," ","3">>

\* let r := 0 if 1 + 2 * 3 == 7 { r = 7 }
SrcPrecedenceCondition ==
  <<"l","e","t"," ","r"," ",":","="," ","0"," ","i","f"," ","1"," ","+"," ",
    "2"," ","*"," ","3"," ","=","="," ","7"," ","{"," ","r"," ","="," ","7",
    " ","}">>

\* func id: a { return a } let r := id(1 + 2 * 3)
SrcPrecedenceArgument ==
  <<"f","u","n","c"," ","i","d",":"," ","a"," ","{"," ","r","e","t","u","r",
    "n"," ","a"," ","}"," ","l","e","t"," ","r"," ",":","="," ","i","d","(",
    "1"," ","+"," ","2"," ","*"," ","3",")">>

\* let r := 0 if {a} { r = 1 } else { r = 2 }
SrcIfNumber(a) ==
  <<"l","e","t"," ","r"," ",":","="," ","0"," ","i","f"," ">> \o
  Literal(a) \o
  <<" ","{"," ","r"," ","="," ","1"," ","}"," ","e","l","s","e"," ","{"," ",
    "r"," ","="," ","2"," ","}">>

\* let r := 0 if "" { r = 1 } else { r = 2 }
SrcIfEmptyString ==
  <<"l","e","t"," ","r"," ",":","="," ","0"," ","i","f"," ","\"","\""," ",
    "{"," ","r"," ","="," ","1"," ","}"," ","e","l","s","e"," ","{"," ","r",
    " ","="," ","2"," ","}">>

\* let r := 0 if "a" { r = 1 } else { r = 2 }
SrcIfString ==
  <<"l","e","t"," ","r"," ",":","="," ","0"," ","i","f"," ","\"","a","\"",
    " ","{"," ","r"," ","="," ","1"," ","}"," ","e","l","s","e"," ","{"," ",
    "r"," ","="," ","2"," ","}">>

\* let r := 0 if [] { r = 1 } else { r = 2 }
SrcIfEmptyArray ==
  <<"l","e","t"," ","r"," ",":","="," ","0"," ","i","f"," ","[","]"," ","{",
    " ","r"," ","="," ","1"," ","}"," ","e","l","s","e"," ","{"," ","r"," ",
    "="," ","2"," ","}">>

\* let r := 0 if [1] { r = 1 } else { r = 2 }
SrcIfArray ==
  <<"l","e","t"," ","r"," ",":","="," ","0"," ","i","f"," ","[","1","]"," ",
    "{"," ","r"," ","="," ","1"," ","}"," ","e","l","s","e"," ","{"," ","r",
    " ","="," ","2"," ","}">>

\* let r := 0 if true { r = 1 } else { r = 2 }
SrcIfTrue ==
  <<"l","e","t"," ","r"," ",":","="," ","0"," ","i","f"," ","t","r","u","e",
    " ","{"," ","r"," ","="," ","1"," ","}"," ","e","l","s","e"," ","{"," ",
    "r"," ","="," ","2"," ","}">>

\* let r := 0 if false { r = 1 } else { r = 2 }
SrcIfFalse ==
  <<"l","e","t"," ","r"," ",":","="," ","0"," ","i","f"," ","f","a","l","s",
    "e"," ","{"," ","r"," ","="," ","1"," ","}"," ","e","l","s","e"," ","{",
    " ","r"," ","="," ","2"," ","}">>

\* func f { } let r := 0 if f() { r = 1 } else { r = 2 }
SrcIfVoid ==
  <<"f","u","n","c"," ","f"," ","{"," ","}"," ","l","e","t"," ","r"," ",":",
    "="," ","0"," ","i","f"," ","f","(",")"," ","{"," ","r"," ","="," ","1",
    " ","}"," ","e","l","s","e"," ","{"," ","r"," ","="," ","2"," ","}">>

\* let r := 0 let n := {a} while n { n = n - 1 r = r + 1 }
SrcWhileNumber(a) ==
  <<"l","e","t"," ","r"," ",":","="," ","0"," ","l","e","t"," ","n"," ",":",
    "="," ">> \o
  Literal(a) \o
  <<" ","w","h","i","l","e"," ","n"," ","{"," ","n"," ","="," ","n"," ","-",
    " ","1"," ","r"," ","="," ","r"," ","+"," ","1"," ","}">>

\* func f { let i := 0 while true { if i == 2 { return i } i = i + 1 print(98) } print(99) } let r := f() print(r) print(7)
SrcReturnNested ==
  <<"f","u","n","c"," ","f"," ","{"," ","l","e","t"," ","i"," ",":","="," ",
    "0"," ","w","h","i","l","e"," ","t","r","u","e"," ","{"," ","i","f"," ",
    "i"," ","=","="," ","2"," ","{"," ","r","e","t","u","r","n"," ","i"," ",
    "}"," ","i"," ","="," ","i"," ","+"," ","1"," ","p","r","i","n","t","(",
    "9","8",")"," ","}"," ","p","r","i","n","t","(","9","9",")"," ","}"," ",
    "l","e","t"," ","r"," ",":","="," ","f","(",")"," ","p","r","i","n","t",
    "(","r",")"," ","p","r","i","n","t","(","7",")">>

\* func fact: n { if n <= 1 { return 1 } return n * fact(n - 1) } print(fact(3)) print(0)
SrcReturnRecursive ==
  <<"f","u","n","c"," ","f","a","c","t",":"," ","n"," ","{"," ","i","f"," ",
    "n"," ","<","="," ","1"," ","{"," ","r","e","t","u","r","n"," ","1"," ",
    "}"," ","r","e","t","u","r","n"," ","n"," ","*"," ","f","a","c","t","(",
    "n"," ","-"," ","1",")"," ","}"," ","p","r","i","n","t","(","f","a","c",
    "t","(","3",")",")"," ","p","r","i","n","t","(","0",")">>

\* func g { return 1 print(8) } func f { let a := g() print(a) return 2 print(9) } print(f()) print(3)
SrcReturnInnerCall ==
  <<"f","u","n","c"," ","g"," ","{"," ","r","e","t","u","r","n"," ","1"," ",
    "p","r","i","n","t","(","8",")"," ","}"," ","f","u","n","c"," ","f"," ",
    "{"," ","l","e","t"," ","a"," ",":","="," ","g","(",")"," ","p","r","i",
    "n","t","(","a",")"," ","r","e","t","u","r","n"," ","2"," ","p","r","i",
    "n","t","(","9",")"," ","}"," ","p","r","i","n","t","(","f","(",")",")",
    " ","p","r","i","n","t","(","3",")">>

\* print(1) return 5
SrcTopLevelReturn ==
  <<"p","r","i","n","t","(","1",")"," ","r","e","t","u","r","n"," ","5">>

\* func add: a, b { print(1) return a + b } let r := add(2, 3)
SrcAdd ==
  <<"f","u","n","c"," ","a","d","d",":"," ","a",","," ","b"," ","{"," ","p",
    "r","i","n","t","(","1",")"," ","r","e","t","u","r","n"," ","a"," ","+",
    " ","b"," ","}"," ","l","e","t"," ","r"," ",":","="," ","a","d","d","(",
    "2",","," ","3",")">>

\* func sub: a, b { return a - b } let r := sub({a}, {b})
SrcSub(a, b) ==
  <<"f","u","n","c"," ","s","u","b",":"," ","a",","," ","b"," ","{"," ","r",
    "e","t","u","r","n"," ","a"," ","-"," ","b"," ","}"," ","l","e","t"," ",
    "r"," ",":","="," ","s","u","b","(">> \o
  Literal(a) \o
  <<","," ">> \o
  Literal(b) \o
  <<")">>

\* func add: a, b { print(1) return a + b } let r := add(2)
SrcTooFew ==
  <<"f","u","n","c"," ","a","d","d",":"," ","a",","," ","b"," ","{"," ","p",
    "r","i","n","t","(","1",")"," ","r","e","t","u","r","n"," ","a"," ","+",
    " ","b"," ","}"," ","l","e","t"," ","r"," ",":","="," ","a","d","d","(",
    "2",")">>

\* func add: a, b { print(1) return a + b } let r := add(2, 3, 4)
SrcTooMany ==
  <<"f","u","n","c"," ","a","d","d",":"," ","a",","," ","b"," ","{"," ","p",
    "r","i","n","t","(","1",")"," ","r","e","t","u","r","n"," ","a"," ","+",
    " ","b"," ","}"," ","l","e","t"," ","r"," ",":","="," ","a","d","d","(",
    "2",","," ","3",","," ","4",")">>

\* func f { print(1) } let r := f(1)
SrcNoParameters ==
  <<"f","u","n","c"," ","f"," ","{"," ","p","r","i","n","t","(","1",")"," ",
    "}"," ","l","e","t"," ","r"," ",":","="," ","f","(","1",")">>

\* func f { return {a} } let r := f()
SrcReturnValue(a) ==
  <<"f","u","n","c"," ","f"," ","{"," ","r","e","t","u","r","n"," ">> \o
  Literal(a) \o
  <<" ","}"," ","l","e","t"," ","r"," ",":","="," ","f","(",")">>

\* func f { let a := 1 } let r := f()
SrcNoReturn ==
  <<"f","u","n","c"," ","f"," ","{"," ","l","e","t"," ","a"," ",":","="," ",
    "1"," ","}"," ","l","e","t"," ","r"," ",":","="," ","f","(",")">>

\* func f { return } let r := f()
SrcBareReturn ==
  <<"f","u","n","c"," ","f"," ","{"," ","r","e","t","u","r","n"," ","}"," ",
    "l","e","t"," ","r"," ",":","="," ","f","(",")">>

\* func f { } let r := f()
SrcEmptyBody ==
  <<"f","u","n","c"," ","f"," ","{"," ","}"," ","l","e","t"," ","r"," ",":",
    "="," ","f","(",")">>

\* func f: c { if c == 1 { return 5 } } let r := f({a})
SrcReturnInIf(a) ==
  <<"f","u","n","c"," ","f",":"," ","c"," ","{"," ","i","f"," ","c"," ","=",
    "="," ","1"," ","{"," ","r","e","t","u","r","n"," ","5"," ","}"," ","}",
    " ","l","e","t"," ","r"," ",":","="," ","f","(">> \o
  Literal(a) \o
  <<")">>

\* x = 1
SrcAssignUndefined ==
  <<"x"," ","="," ","1">>

\* let y := 1 if true { x = 2 }
SrcAssignUndefinedInner ==
  <<"l","e","t"," ","y"," ",":","="," ","1"," ","i","f"," ","t","r","u","e",
    " ","{"," ","x"," ","="," ","2"," ","}">>

\* let x := 0 if true { x = {a} }
SrcAssignOuter(a) ==
  <<"l","e","t"," ","x"," ",":","="," ","0"," ","i","f"," ","t","r","u","e",
    " ","{"," ","x"," ","="," ">> \o
  Literal(a) \o
  <<" ","}">>

\* let x := 0 if true { if true { x = 3 } }
SrcAssignOuterNested ==
  <<"l","e","t"," ","x"," ",":","="," ","0"," ","i","f"," ","t","r","u","e",
    " ","{"," ","i","f"," ","t","r","u","e"," ","{"," ","x"," ","="," ","3",
    " ","}"," ","}">>

\* let x := 0 func f { x = 5 } f()
SrcAssignFromCall ==
  <<"l","e","t"," ","x"," ",":","="," ","0"," ","f","u","n","c"," ","f"," ",
    "{"," ","x"," ","="," ","5"," ","}"," ","f","(",")">>

\* let x := 1 func f: x { x = 7 } f(0)
SrcAssignParameter ==
  <<"l","e","t"," ","x"," ",":","="," ","1"," ","f","u","n","c"," ","f",":",
    " ","x"," ","{"," ","x"," ","="," ","7"," ","}"," ","f","(","0",")">>

\* let x := 0 while x < 2 { x = x + 1 }
SrcAssignWhile ==
  <<"l","e","t"," ","x"," ",":","="," ","0"," ","w","h","i","l","e"," ","x",
    " ","<"," ","2"," ","{"," ","x"," ","="," ","x"," ","+"," ","1"," ","}">>

\* let x := {a} let x := {b}
SrcRedeclare(a, b) ==
  <<"l","e","t"," ","x"," ",":","="," ">> \o
  Literal(a) \o
  <<" ","l","e","t"," ","x"," ",":","="," ">> \o
  Literal(b)

\* let x := {a} x = {b}
SrcReassign(a, b) ==
  <<"l","e","t"," ","x"," ",":","="," ">> \o
  Literal(a) \o
  <<" ","x"," ","="," ">> \o
  Literal(b)

\* let r := 0 if true { let y := 1 let y := 2 r = 1 }
SrcRedeclareInner ==
  <<"l","e","t"," ","r"," ",":","="," ","0"," ","i","f"," ","t","r","u","e",
    " ","{"," ","l","e","t"," ","y"," ",":","="," ","1"," ","l","e","t"," ",
    "y"," ",":","="," ","2"," ","r"," ","="," ","1"," ","}">>


\* let r := {a} / {b}
SrcDivide(a, b) ==
  <<"l","e","t"," ","r"," ",":","="," ">> \o
  Literal(a) \o
  <<" ","/"," ">> \o
  Literal(b)

\* let z := {b} - {b} let r := {a} / z
SrcDivideComputed(a, b) ==
  <<"l","e","t"," ","z"," ",":","="," ">> \o
  Literal(b) \o
  <<" ","-"," ">> \o
  Literal(b) \o
  <<" ","l","e","t"," ","r"," ",":","="," ">> \o
  Literal(a) \o
  <<" ","/"," ","z">>

\* let a := [1] let r := a == a
SrcArrayEqual ==
  <<"l","e","t"," ","a"," ",":","="," ","[","1","]"," ","l","e","t"," ","r",
    " ",":","="," ","a"," ","=","="," ","a">>

\* let a := [1] let r := !a
SrcArrayNot ==
  <<"l","e","t"," ","a"," ",":","="," ","[","1","]"," ","l","e","t"," ","r",
    " ",":","="," ","!","a">>

\* let a := [1] let r := a && a
SrcArrayAnd ==
  <<"l","e","t"," ","a"," ",":","="," ","[","1","]"," ","l","e","t"," ","r",
    " ",":","="," ","a"," ","&","&"," ","a">>

\* func f { } let r := f != f
SrcFunctionNotEqual ==
  <<"f","u","n","c"," ","f"," ","{"," ","}"," ","l","e","t"," ","r"," ",":",
    "="," ","f"," ","!","="," ","f">>

\* func f { } let r := f() || f()
SrcVoidOr ==
  <<"f","u","n","c"," ","f"," ","{"," ","}"," ","l","e","t"," ","r"," ",":",
    "="," ","f","(",")"," ","|","|"," ","f","(",")">>

\* let r := true == false
SrcBooleanEqual ==
  <<"l","e","t"," ","r"," ",":","="," ","t","r","u","e"," ","=","="," ","f",
    "a","l","s","e">>

\* words: the reserved words, and x, lets, x_1, _x, void
Words ==
  {<<"l","e","t">>, <<"i","f">>, <<"e","l","s","e">>,
   <<"w","h","i","l","e">>, <<"t","r","u","e">>, <<"f","a","l","s","e">>,
   <<"f","u","n","c">>, <<"r","e","t","u","r","n">>, <<"x">>,
   <<"l","e","t","s">>, <<"x","_","1">>, <<"_","x">>, <<"v","o","i","d">>}

\* {v} {w}
SrcWords(v, w) == v \o <<" ">> \o w

\* if true { func f { return 1 } } let r := f()
SrcFuncInIf ==
  <<"i","f"," ","t","r","u","e"," ","{"," ","f","u","n","c"," ","f"," ","{",
    " ","r","e","t","u","r","n"," ","1"," ","}"," ","}"," ","l","e","t"," ",
    "r"," ",":","="," ","f","(",")">>

\* let i := 0 while i < 1 { func f { return 1 } i = i + 1 } let r := f()
SrcFuncInWhile ==
  <<"l","e","t"," ","i"," ",":","="," ","0"," ","w","h","i","l","e"," ","i",
    " ","<"," ","1"," ","{"," ","f","u","n","c"," ","f"," ","{"," ","r","e",
    "t","u","r","n"," ","1"," ","}"," ","i"," ","="," ","i"," ","+"," ","1",
    " ","}"," ","l","e","t"," ","r"," ",":","="," ","f","(",")">>

\* func g { func f { return 1 } } g() let r := f()
SrcFuncInCall ==
  <<"f","u","n","c"," ","g"," ","{"," ","f","u","n","c"," ","f"," ","{"," ",
    "r","e","t","u","r","n"," ","1"," ","}"," ","}"," ","g","(",")"," ","l",
    "e","t"," ","r"," ",":","="," ","f","(",")">>

\* func f { return 9 } if true { func f { return {a} } } let r := f()
SrcFuncRedefineIf(a) ==
  <<"f","u","n","c"," ","f"," ","{"," ","r","e","t","u","r","n"," ","9"," ",
    "}"," ","i","f"," ","t","r","u","e"," ","{"," ","f","u","n","c"," ","f",
    " ","{"," ","r","e","t","u","r","n"," ">> \o
  Literal(a) \o
  <<" ","}"," ","}"," ","l","e","t"," ","r"," ",":","="," ","f","(",")">>

\* func f { return 9 } let i := 0 while i < 1 { func f { return {a} } i = i + 1 } let r := f()
SrcFuncRedefineWhile(a) ==
  <<"f","u","n","c"," ","f"," ","{"," ","r","e","t","u","r","n"," ","9"," ",
    "}"," ","l","e","t"," ","i"," ",":","="," ","0"," ","w","h","i","l","e",
    " ","i"," ","<"," ","1"," ","{"," ","f","u","n","c"," ","f"," ","{"," ",
    "r","e","t","u","r","n"," ">> \o
  Literal(a) \o
  <<" ","}"," ","i"," ","="," ","i"," ","+"," ","1"," ","}"," ","l","e","t",
    " ","r"," ",":","="," ","f","(",")">>

\* func f { return 9 } func g { func f { return {a} } } g() let r := f()
SrcFuncRedefineCall(a) ==
  <<"f","u","n","c"," ","f"," ","{"," ","r","e","t","u","r","n"," ","9"," ",
    "}"," ","f","u","n","c"," ","g"," ","{"," ","f","u","n","c"," ","f"," ",
    "{"," ","r","e","t","u","r","n"," ">> \o
  Literal(a) \o
  <<" ","}"," ","}"," ","g","(",")"," ","l","e","t"," ","r"," ",":","="," ",
    "f","(",")">>

\* let a := {a} func f: a, b { return b } let r := f(9, a)
SrcArgCaller(a) ==
  <<"l","e","t"," ","a"," ",":","="," ">> \o
  Literal(a) \o
  <<" ","f","u","n","c"," ","f",":"," ","a",","," ","b"," ","{"," ","r","e",
    "t","u","r","n"," ","b"," ","}"," ","l","e","t"," ","r"," ",":","="," ",
    "f","(","9",","," ","a",")">>

\* func f: a, b { return b } let r := f(9, a)
SrcArgUnbound ==
  <<"f","u","n","c"," ","f",":"," ","a",","," ","b"," ","{"," ","r","e","t",
    "u","r","n"," ","b"," ","}"," ","l","e","t"," ","r"," ",":","="," ","f",
    "(","9",","," ","a",")">>

\* func f { return y } func g { let y := {a} return f() } let r := g()
SrcDynamic(a) ==
  <<"f","u","n","c"," ","f"," ","{"," ","r","e","t","u","r","n"," ","y"," ",
    "}"," ","f","u","n","c"," ","g"," ","{"," ","l","e","t"," ","y"," ",":",
    "="," ">> \o
  Literal(a) \o
  <<" ","r","e","t","u","r","n"," ","f","(",")"," ","}"," ","l","e","t"," ",
    "r"," ",":","="," ","g","(",")">>

\* func h { let z := 1 func f { return z } } h() let r := f()
SrcNoCapture ==
  <<"f","u","n","c"," ","h"," ","{"," ","l","e","t"," ","z"," ",":","="," ",
    "1"," ","f","u","n","c"," ","f"," ","{"," ","r","e","t","u","r","n"," ",
    "z"," ","}"," ","}"," ","h","(",")"," ","l","e","t"," ","r"," ",":","=",
    " ","f","(",")">>

\* let i := 0 let s := 0 while i < {n} { let t := i + 1 s = s + t i = i + 1 } let r := s
SrcWhileDeclare(n) ==
  <<"l","e","t"," ","i"," ",":","="," ","0"," ","l","e","t"," ","s"," ",":",
    "="," ","0"," ","w","h","i","l","e"," ","i"," ","<"," ">> \o
  Literal(n) \o
  <<" ","{"," ","l","e","t"," ","t"," ",":","="," ","i"," ","+"," ","1"," ",
    "s"," ","="," ","s"," ","+"," ","t"," ","i"," ","="," ","i"," ","+"," ",
    "1"," ","}"," ","l","e","t"," ","r"," ",":","="," ","s">>

\* let i := 0 while i < 1 { let t := 1 i = i + 1 } let r := t
SrcWhileAfter ==
  <<"l","e","t"," ","i"," ",":","="," ","0"," ","w","h","i","l","e"," ","i",
    " ","<"," ","1"," ","{"," ","l","e","t"," ","t"," ",":","="," ","1"," ",
    "i"," ","="," ","i"," ","+"," ","1"," ","}"," ","l","e","t"," ","r"," ",
    ":","="," ","t">>

\* let c := 0 let i := 0 func cond { c = c + 1 let b := i < {n} return b } while cond() { i = i + 1 }
SrcWhileCount(n) ==
  <<"l","e","t"," ","c"," ",":","="," ","0"," ","l","e","t"," ","i"," ",":",
    "="," ","0"," ","f","u","n","c"," ","c","o","n","d"," ","{"," ","c"," ",
    "="," ","c"," ","+"," ","1"," ","l","e","t"," ","b"," ",":","="," ","i",
    " ","<"," ">> \o
  Literal(n) \o
  <<" ","r","e","t","u","r","n"," ","b"," ","}"," ","w","h","i","l","e"," ",
    "c","o","n","d","(",")"," ","{"," ","i"," ","="," ","i"," ","+"," ","1",
    " ","}">>

\* let x := 9 func f { x = {a} let q := 1 / 0 x = 7 return 5 } let i := 0 while i < 1 { if true { let r := f() x = 8 } i = i + 1 } x = 6 print(x)
SrcErrorNested(a) ==
  <<"l","e","t"," ","x"," ",":","="," ","9"," ","f","u","n","c"," ","f"," ",
    "{"," ","x"," ","="," ">> \o
  Literal(a) \o
  <<" ","l","e","t"," ","q"," ",":","="," ","1"," ","/"," ","0"," ","x"," ",
    "="," ","7"," ","r","e","t","u","r","n"," ","5"," ","}"," ","l","e","t",
    " ","i"," ",":","="," ","0"," ","w","h","i","l","e"," ","i"," ","<"," ",
    "1"," ","{"," ","i","f"," ","t","r","u","e"," ","{"," ","l","e","t"," ",
    "r"," ",":","="," ","f","(",")"," ","x"," ","="," ","8"," ","}"," ","i",
    " ","="," ","i"," ","+"," ","1"," ","}"," ","x"," ","="," ","6"," ","p",
    "r","i","n","t","(","x",")">>

\* let x := {a} let y := 1 / 0 x = 7 print(x)
SrcErrorTop(a) ==
  <<"l","e","t"," ","x"," ",":","="," ">> \o
  Literal(a) \o
  <<" ","l","e","t"," ","y"," ",":","="," ","1"," ","/"," ","0"," ","x"," ",
    "="," ","7"," ","p","r","i","n","t","(","x",")">>

\* let x := 9 func f { x = {a} return u } let r := f() x = 7 print(x)
SrcErrorCall(a) ==
  <<"l","e","t"," ","x"," ",":","="," ","9"," ","f","u","n","c"," ","f"," ",
    "{"," ","x"," ","="," ">> \o
  Literal(a) \o
  <<" ","r","e","t","u","r","n"," ","u"," ","}"," ","l","e","t"," ","r"," ",
    ":","="," ","f","(",")"," ","x"," ","="," ","7"," ","p","r","i","n","t",
    "(","x",")">>

\* the comparison operators as they are written
CompareOperators ==
  {<<"=","=">>, <<"!","=">>, <<"<">>, <<"<","=">>, <<">">>, <<">","=">>}

\* let r := 1 {o} 2
SrcCompare(o) ==
  <<"l","e","t"," ","r"," ",":","="," ","1"," ">> \o o \o <<" ","2">>

\* let r := 1 {o1} 2 {o2} 3
SrcChain(o1, o2) == SrcCompare(o1) \o <<" ">> \o o2 \o <<" ","3">>

\* if 1 {o1} 2 {o2} 3 { }
SrcChainIf(o1, o2) ==
  <<"i","f"," ","1"," ">> \o o1 \o <<" ","2"," ">> \o o2 \o
  <<" ","3"," ","{"," ","}">>

\* a Boolean literal as it is written
BoolText(b) ==
  IF b THEN <<"t","r","u","e">> ELSE <<"f","a","l","s","e">>

\* if {a} { let t := 1 } else if {b} { let t := 2 } else if {c} { let t := 3 } else { let t := 4 }
SrcIfChain(a, b, c) ==
  <<"i","f"," ">> \o
  BoolText(a) \o
  <<" ","{"," ","l","e","t"," ","t"," ",":","="," ","1"," ","}"," ","e","l",
    "s","e"," ","i","f"," ">> \o
  BoolText(b) \o
  <<" ","{"," ","l","e","t"," ","t"," ",":","="," ","2"," ","}"," ","e","l",
    "s","e"," ","i","f"," ">> \o
  BoolText(c) \o
  <<" ","{"," ","l","e","t"," ","t"," ",":","="," ","3"," ","}"," ","e","l",
    "s","e"," ","{"," ","l","e","t"," ","t"," ",":","="," ","4"," ","}">>

\* if {a} { let t := 1 } else if {b} { let t := 2 } else if {c} { let t := 3 }
SrcIfChainNoElse(a, b, c) ==
  <<"i","f"," ">> \o
  BoolText(a) \o
  <<" ","{"," ","l","e","t"," ","t"," ",":","="," ","1"," ","}"," ","e","l",
    "s","e"," ","i","f"," ">> \o
  BoolText(b) \o
  <<" ","{"," ","l","e","t"," ","t"," ",":","="," ","2"," ","}"," ","e","l",
    "s","e"," ","i","f"," ">> \o
  BoolText(c) \o
  <<" ","{"," ","l","e","t"," ","t"," ",":","="," ","3"," ","}">>

\* if {a} { let t := 1 } else if {b} { let t := 2 } else if u { let t := 3 } else { let t := 4 }
SrcIfChainStop(a, b) ==
  <<"i","f"," ">> \o
  BoolText(a) \o
  <<" ","{"," ","l","e","t"," ","t"," ",":","="," ","1"," ","}"," ","e","l",
    "s","e"," ","i","f"," ">> \o
  BoolText(b) \o
  <<" ","{"," ","l","e","t"," ","t"," ",":","="," ","2"," ","}"," ","e","l",
    "s","e"," ","i","f"," ","u"," ","{"," ","l","e","t"," ","t"," ",":","=",
    " ","3"," ","}"," ","e","l","s","e"," ","{"," ","l","e","t"," ","t"," ",
    ":","="," ","4"," ","}">>

\* the logical operators as they are written
LogicalOperators == {<<"&","&">>, <<"|","|">>}

\* the other binary operators as they are written
NumberOperators ==
  {<<"+">>, <<"-">>, <<"*">>, <<"/">>, <<"=","=">>, <<"!","=">>, <<"<">>,
   <<">","=">>}

\* let x := 0 func g { x = 1 return {c} } let r := {b} {o} g()
SrcLogicalEffect(b, o, c) ==
  <<"l","e","t"," ","x"," ",":","="," ","0"," ","f","u","n","c"," ","g"," ",
    "{"," ","x"," ","="," ","1"," ","r","e","t","u","r","n"," ">> \o
  BoolText(c) \o
  <<" ","}"," ","l","e","t"," ","r"," ",":","="," ">> \o
  BoolText(b) \o
  <<" ">> \o
  o \o
  <<" ","g","(",")">>

\* let x := 0 let r := {b} {o} 1 / 0 == 1
SrcLogicalError(b, o) ==
  <<"l","e","t"," ","x"," ",":","="," ","0"," ","l","e","t"," ","r"," ",":",
    "="," ">> \o
  BoolText(b) \o
  <<" ">> \o
  o \o
  <<" ","1"," ","/"," ","0"," ","=","="," ","1">>

\* let x := 1 func f { x = x + 1 return {b} } func g { x = x * 2 return {c} } let r := f() {o} g()
SrcLogicalOrder(b, o, c) ==
  <<"l","e","t"," ","x"," ",":","="," ","1"," ","f","u","n","c"," ","f"," ",
    "{"," ","x"," ","="," ","x"," ","+"," ","1"," ","r","e","t","u","r","n",
    " ">> \o
  BoolText(b) \o
  <<" ","}"," ","f","u","n","c"," ","g"," ","{"," ","x"," ","="," ","x"," ",
    "*"," ","2"," ","r","e","t","u","r","n"," ">> \o
  BoolText(c) \o
  <<" ","}"," ","l","e","t"," ","r"," ",":","="," ","f","(",")"," ">> \o
  o \o
  <<" ","g","(",")">>

\* let x := 0 func g { x = 1 return true } let r := 1 / 0 == 1 {o} g()
SrcLogicalLeftError(o) ==
  <<"l","e","t"," ","x"," ",":","="," ","0"," ","f","u","n","c"," ","g"," ",
    "{"," ","x"," ","="," ","1"," ","r","e","t","u","r","n"," ","t","r","u",
    "e"," ","}"," ","l","e","t"," ","r"," ",":","="," ","1"," ","/"," ","0",
    " ","=","="," ","1"," ">> \o
  o \o
  <<" ","g","(",")">>

\* let x := 1 func f { x = x + 1 return 1 } func g { x = x * 2 return 2 } let r := f() {o} g()
SrcNumberOrder(o) ==
  <<"l","e","t"," ","x"," ",":","="," ","1"," ","f","u","n","c"," ","f"," ",
    "{"," ","x"," ","="," ","x"," ","+"," ","1"," ","r","e","t","u","r","n",
    " ","1"," ","}"," ","f","u","n","c"," ","g"," ","{"," ","x"," ","="," ",
    "x"," ","*"," ","2"," ","r","e","t","u","r","n"," ","2"," ","}"," ","l",
    "e","t"," ","r"," ",":","="," ","f","(",")"," ">> \o
  o \o
  <<" ","g","(",")">>

LexerSources ==
  {SrcUnterminatedString, SrcLoneAmpersand, SrcLonePipe,
   SrcUnexpectedCharacter, SrcStrings, SrcLogical}

ShadowSources == {SrcShadowIf, SrcShadowWhile, SrcShadowCall}

IndexSources == {SrcIndexAssign, SrcIndexRead}

PrecedenceSources ==
  {SrcPrecedence(a, b, c) : a \in Nums, b \in Nums, c \in Nums} \cup
  {SrcUnaryMinus(a, b) : a \in Nums, b \in Nums} \cup
  {SrcPrecedenceAssign, SrcPrecedenceCondition, SrcPrecedenceArgument}

GroupSources ==
  {SrcGroupDeclare(a, b, c) : a \in Nums, b \in Nums, c \in Nums} \cup
  {SrcGroupAssign, SrcGroupCondition, SrcGroupArgument}

ConditionSources ==
  {SrcIfNumber(a) : a \in Nums} \cup {SrcWhileNumber(a) : a \in Nums} \cup
  {SrcIfEmptyString, SrcIfString, SrcIfEmptyArray, SrcIfArray, SrcIfTrue,
   SrcIfFalse, SrcIfVoid}

ReturnSources ==
  {SrcReturnNested, SrcReturnRecursive, SrcReturnInnerCall, SrcTopLevelReturn}

CallSources ==
  {SrcSub(a, b) : a \in Nums, b \in Nums} \cup
  {SrcAdd, SrcTooFew, SrcTooMany, SrcNoParameters}

ResultSources ==
  {SrcReturnValue(a) : a \in Nums} \cup {SrcReturnInIf(a) : a \in Nums} \cup
  {SrcNoReturn, SrcBareReturn, SrcEmptyBody}

AssignSources ==
  {SrcAssignOuter(a) : a \in Nums} \cup
  {SrcAssignUndefined, SrcAssignUndefinedInner, SrcAssignOuterNested,
   SrcAssignFromCall, SrcAssignParameter, SrcAssignWhile, SrcLocalIf}

DeclareSources ==
  {SrcRedeclare(a, b) : a \in Nums, b \in Nums} \cup
  {SrcReassign(a, b) : a \in Nums, b \in Nums} \cup {SrcRedeclareInner}

DivideSources ==
  {SrcDivide(a, b) : a \in Nums, b \in Nums} \cup
  {SrcDivideComputed(a, b) : a \in Nums, b \in Nums}

TruthinessSources ==
  {SrcArrayEqual, SrcArrayNot, SrcArrayAnd, SrcFunctionNotEqual, SrcVoidOr,
   SrcBooleanEqual}

WordSources == {SrcWords(v, w) : v \in Words, w \in Words}

FunctionSources ==
  {SrcFuncInIf, SrcFuncInWhile, SrcFuncInCall} \cup
  {SrcFuncRedefineIf(a) : a \in Nums} \cup
  {SrcFuncRedefineWhile(a) : a \in Nums} \cup
  {SrcFuncRedefineCall(a) : a \in Nums}

ScopeSources ==
  {SrcArgCaller(a) : a \in Nums} \cup {SrcDynamic(a) : a \in Nums} \cup
  {SrcArgUnbound, SrcNoCapture}

WhileSources ==
  {SrcWhileDeclare(n) : n \in Nums} \cup {SrcWhileCount(n) : n \in Nums} \cup
  {SrcWhileAfter}

ErrorSources ==
  {SrcErrorNested(a) : a \in Nums} \cup {SrcErrorTop(a) : a \in Nums} \cup
  {SrcErrorCall(a) : a \in Nums}

CompareSources ==
  {SrcCompare(o) : o \in CompareOperators} \cup
  {SrcChain(o1, o2) : o1 \in CompareOperators, o2 \in CompareOperators} \cup
  {SrcChainIf(o1, o2) : o1 \in CompareOperators, o2 \in CompareOperators}

IfChainSources ==
  {SrcIfChain(a, b, c) : a \in BOOLEAN, b \in BOOLEAN, c \in BOOLEAN} \cup
  {SrcIfChainNoElse(a, b, c) : a \in BOOLEAN, b \in BOOLEAN, c \in BOOLEAN} \cup
  {SrcIfChainStop(a, b) : a \in BOOLEAN, b \in BOOLEAN}

OrderSources ==
  {SrcLogicalEffect(b, o, c) :
     b \in BOOLEAN, o \in LogicalOperators, c \in BOOLEAN} \cup
  {SrcLogicalError(b, o) : b \in BOOLEAN, o \in LogicalOperators} \cup
  {SrcLogicalOrder(b, o, c) :
     b \in BOOLEAN, o \in LogicalOperators, c \in BOOLEAN} \cup
  {SrcLogicalLeftError(o) : o \in LogicalOperators} \cup
  {SrcNumberOrder(o) : o \in NumberOperators}

Sources ==
  LexerSources \cup ShadowSources \cup IndexSources \cup PrecedenceSources \cup
  GroupSources \cup ConditionSources \cup ReturnSources \cup CallSources \cup
  ResultSources \cup AssignSources \cup DeclareSources \cup DivideSources \cup
  TruthinessSources \cup WordSources \cup
  FunctionSources \cup
  ScopeSources \cup
  WhileSources \cup
  ErrorSources \cup
  CompareSources \cup
  IfChainSources \cup
  OrderSources

\* ------------------------------------------------------------------------
\* main: one run of the interpreter on a file
\* ------------------------------------------------------------------------
VARIABLES
  input,     \* the text of the file
  pc,        \* "lex", "parse", "exec", then "done" or "exit" (os.Exit(1))
  tokens,    \* what Tokenize returned
  lexErr,
  stmts,     \* what Parse returned
  parseErr,
  st,        \* the store of the evaluator
  env,       \* the root Environment (0 before it is created)
  idx,       \* the statement Parser.Execute is at
  runErr,    \* the error Statement.Execute returned
  last,      \* the last operation applied to an Environment directly
  evals,     \* the evaluations that run side by side in one process
  lines      \* the inputs the interactive loop has read, and how each ended

vars ==
  <<input, pc, tokens, lexErr, stmts, parseErr, st, env, idx, runErr, last,
    evals, lines>>

\* no operation has been applied to an Environment directly
NoOperation ==
  [n |-> 0, op |-> "", env |-> 0, name |-> <<>>, value |-> VoidValue,
   before |-> InitialStore]

Init ==
  /\ input \in Sources
  /\ pc = "lex"
  /\ tokens = <<>>
  /\ lexErr = NoLexerError
  /\ stmts = <<>>
  /\ parseErr = NoParserError
  /\ st = InitialStore
  /\ env = 0
  /\ idx = 1
  /\ runErr = NoError
  /\ last = NoOperation
  /\ evals = <<>>
  /\ lines = <<>>

\* main: lexer.New(input).Tokenize(); an error ends the run
MainTokenize ==
  /\ pc = "lex"
  /\ \E r \in {Tokenize(NewLexer(input))} :
        /\ tokens' = r.tokens
        /\ lexErr' = r.err
        /\ pc' = IF r.err # NoLexerError THEN "exit" ELSE "parse"
  /\ UNCHANGED <<input, stmts, parseErr, st, env, idx, runErr, last, evals,
                 lines>>

\* main: parser.New(tokens), NewDefaultEnvironment(), and the first part of
\* Parser.Execute: Parse, whose error is returned
ExecuteParse ==
  /\ pc = "parse"
  /\ \E e \in {NewDefaultEnvironment(st)}, r \in {Parse(NewParser(tokens))} :
        /\ st' = e.st
        /\ env' = e.env
        /\ stmts' = r.statements
        /\ parseErr' = r.err
        /\ pc' = IF r.err # NoParserError THEN "exit" ELSE "exec"
  /\ UNCHANGED <<input, tokens, lexErr, idx, runErr, last, evals, lines>>

\* Parser.Execute: one pass of the statement loop
ExecuteStatement ==
  /\ pc = "exec"
  /\ idx <= Len(stmts)
  /\ \E r \in {Execute(stmts[idx], env, st)} :
        /\ st' = r.st
        /\ runErr' = r.err
        /\ IF r.err # NoError
           THEN pc' = "exit" /\ idx' = idx
           ELSE pc' = "exec" /\ idx' = idx + 1
  /\ UNCHANGED <<input, tokens, lexErr, stmts, parseErr, env, last, evals,
                 lines>>

\* Parser.Execute: the loop is over, nil is returned
ExecuteReturn ==
  /\ pc = "exec"
  /\ idx > Len(stmts)
  /\ pc' = "done"
  /\ UNCHANGED <<input, tokens, lexErr, stmts, parseErr, st, env, idx, runErr,
                 last, evals, lines>>

Next == MainTokenize \/ ExecuteParse \/ ExecuteStatement \/ ExecuteReturn

Spec == Init /\ [][Next]_vars

\* the value of a name looked up from the root Environment
Root(name) == Get(st, env, name)

\* ------------------------------------------------------------------------
\* Environment: NewEnvironment, Define and Set called directly on the
\* Environments of one chain
\* ------------------------------------------------------------------------
\* at most MaxEnvs Environments, and MaxOps calls of Define and Set
MaxEnvs == 3

MaxOps == 3

EnvNames == {<<"x">>, <<"y">>}

\* the value the n-th call of Define or Set passes
EnvValue(n) == NumberValue(Num(n))

\* the record of a call made in the current state
Operation(n, op, e, name) ==
  [n |-> n, op |-> op, env |-> e, name |-> name, value |-> EnvValue(n),
   before |-> st]

\* the root of the chain: NewEnvironment(nil), as Parser.Execute makes it for
\* a nil env, or NewDefaultEnvironment(), as main makes it
EnvInit ==
  /\ \E r \in {NewEnvironment(InitialStore, 0),
                NewDefaultEnvironment(InitialStore)} :
        st = r.st /\ env = r.env
  /\ pc = "env"
  /\ input = <<>>
  /\ tokens = <<>>
  /\ lexErr = NoLexerError
  /\ stmts = <<>>
  /\ parseErr = NoParserError
  /\ idx = 1
  /\ runErr = NoError
  /\ last = NoOperation
  /\ evals = <<>>
  /\ lines = <<>>

\* NewEnvironment(parent)
EnvNewEnvironment ==
  /\ pc = "env"
  /\ Len(st.envs) < MaxEnvs
  /\ \E parent \in 1..Len(st.envs) :
        /\ st' = NewEnvironment(st, parent).st
        /\ last' = [Operation(last.n, "NewEnvironment", parent, <<>>)
                      EXCEPT !.value = VoidValue]
  /\ UNCHANGED <<input, pc, tokens, lexErr, stmts, parseErr, env, idx, runErr,
                 evals, lines>>

\* e.Define(name, value)
EnvDefine ==
  /\ pc = "env"
  /\ last.n < MaxOps
  /\ \E e \in 1..Len(st.envs), name \in EnvNames :
        /\ st' = Define(st, e, name, EnvValue(last.n + 1))
        /\ last' = Operation(last.n + 1, "Define", e, name)
  /\ UNCHANGED <<input, pc, tokens, lexErr, stmts, parseErr, env, idx, runErr,
                 evals, lines>>

\* e.Set(name, value)
EnvSet ==
  /\ pc = "env"
  /\ last.n < MaxOps
  /\ \E e \in 1..Len(st.envs), name \in EnvNames :
        /\ st' = Set(st, e, name, EnvValue(last.n + 1))
        /\ last' = Operation(last.n + 1, "Set", e, name)
  /\ UNCHANGED <<input, pc, tokens, lexErr, stmts, parseErr, env, idx, runErr,
                 evals, lines>>

EnvNext == EnvNewEnvironment \/ EnvDefine \/ EnvSet

EnvSpec == EnvInit /\ [][EnvNext]_vars

\* ------------------------------------------------------------------------
\* two evaluations in one process, each as main runs one: Tokenize,
\* parser.New, its own NewDefaultEnvironment(), Parser.Execute.  The store is
\* the memory of the process; the statements of the two interleave.
\* ------------------------------------------------------------------------
Evaluations == 1..2

ConcurrentSources ==
  {SrcReassign(a, b) : a \in Nums, b \in Nums} \cup {SrcEmptyBody}

\* an evaluation that has not started
Evaluation(src) ==
  [input |-> src, pc |-> "start", stmts |-> <<>>, parseErr |-> NoParserError,
   env |-> 0, idx |-> 1, runErr |-> NoError]

ConcurrentInit ==
  /\ evals \in [Evaluations -> {Evaluation(src) : src \in ConcurrentSources}]
  /\ pc = "evals"
  /\ st = InitialStore
  /\ input = <<>>
  /\ tokens = <<>>
  /\ lexErr = NoLexerError
  /\ stmts = <<>>
  /\ parseErr = NoParserError
  /\ env = 0
  /\ idx = 1
  /\ runErr = NoError
  /\ last = NoOperation
  /\ lines = <<>>

\* the evaluation after Parse returned r in the new Environment e
Started(ev, e, r) ==
  [ev EXCEPT !.stmts = r.statements, !.parseErr = r.err, !.env = e,
             !.pc = IF r.err # NoParserError THEN "exit"
                    ELSE IF Len(r.statements) = 0 THEN "done" ELSE "exec"]

\* evaluation i up to the statement loop of Parser.Execute
EvalStart(i) ==
  /\ pc = "evals"
  /\ evals[i].pc = "start"
  /\ \E e \in {NewDefaultEnvironment(st)},
        r \in {Parse(NewParser(Tokenize(NewLexer(evals[i].input)).tokens))} :
        /\ st' = e.st
        /\ evals' = [evals EXCEPT ![i] = Started(evals[i], e.env, r)]
  /\ UNCHANGED <<input, pc, tokens, lexErr, stmts, parseErr, env, idx, runErr,
                 last, lines>>

\* the evaluation after its statement at idx returned r
Stepped(ev, r) ==
  [ev EXCEPT !.runErr = r.err,
             !.idx = IF r.err # NoError THEN ev.idx ELSE ev.idx + 1,
             !.pc = IF r.err # NoError THEN "exit"
                    ELSE IF ev.idx = Len(ev.stmts) THEN "done" ELSE "exec"]

\* evaluation i: one pass of the statement loop of Parser.Execute
EvalStatement(i) ==
  /\ pc = "evals"
  /\ evals[i].pc = "exec"
  /\ \E r \in {Execute(evals[i].stmts[evals[i].idx], evals[i].env, st)} :
        /\ st' = r.st
        /\ evals' = [evals EXCEPT ![i] = Stepped(evals[i], r)]
  /\ UNCHANGED <<input, pc, tokens, lexErr, stmts, parseErr, env, idx, runErr,
                 last, lines>>

ConcurrentNext == \E i \in Evaluations : EvalStart(i) \/ EvalStatement(i)

ConcurrentSpec == ConcurrentInit /\ [][ConcurrentNext]_vars

\* ------------------------------------------------------------------------
\* Statement.Execute on statement lists built from the node types directly:
\* the statement loop of Parser.Execute over them, in the root Environment
\* main makes
\* ------------------------------------------------------------------------
Ident(name) == Identifier(Token(IdentToken, name, 0, 0))

NumberOf(k) == NumberLiteral(Num(k))

Let(name, e) == DeclarationStatement(Ident(name), e)

Index(name, ie) == PostfixExpression(Ident(name), ie)

IndexAssign(name, ie, e) == IndexAssignmentStatement(Ident(name), ie, e)

Call(name, args) == FunctionCallExpression(Ident(name), args)

\* [7, 8, 9]
Elements == ArrayLiteral(<<NumberOf(7), NumberOf(8), NumberOf(9)>>)

\* the indexes of its elements
ValidIndexes == 0..(Len(Elements.Elements) - 1)

\* -1 / 2
MinusHalf ==
  UnaryExpression(MinusToken,
                  BinaryExpression(NumberOf(1), DivideToken, NumberOf(2)))

\* index expressions: 0 up to the length and one more, 5 / 2, -1, -1 / 2,
\* true, "a"
IndexExpressions ==
  {NumberOf(k) : k \in 0..(Len(Elements.Elements) + 1)} \cup
  {BinaryExpression(NumberOf(5), DivideToken, NumberOf(2)),
   UnaryExpression(MinusToken, NumberOf(1)), MinusHalf,
   BooleanLiteral(TRUE), StringLiteral(<<"a">>)}

\* let a := [7,8,9] let b := a a[k] = v let r := b[k]
AliasWrite(k, v) ==
  <<Let(<<"a">>, Elements), Let(<<"b">>, Ident(<<"a">>)),
    IndexAssign(<<"a">>, NumberOf(k), NumberOf(v)),
    Let(<<"r">>, Index(<<"b">>, NumberOf(k)))>>

\* let a := [7,8,9] let b := a b[k] = v let r := a[k]
AliasWriteBack(k, v) ==
  <<Let(<<"a">>, Elements), Let(<<"b">>, Ident(<<"a">>)),
    IndexAssign(<<"b">>, NumberOf(k), NumberOf(v)),
    Let(<<"r">>, Index(<<"a">>, NumberOf(k)))>>

\* let a := [7,8,9] func f: p { p[k] = v } f(a) let r := a[k]
AliasArgument(k, v) ==
  <<Let(<<"a">>, Elements),
    FunctionStatement(Ident(<<"f">>), <<Ident(<<"p">>)>>,
                      <<IndexAssign(<<"p">>, NumberOf(k), NumberOf(v))>>),
    ExpressionStatement(Call(<<"f">>, <<Ident(<<"a">>)>>)),
    Let(<<"r">>, Index(<<"a">>, NumberOf(k)))>>

AliasPrograms ==
  {AliasWrite(k, v) : k \in ValidIndexes, v \in Nums} \cup
  {AliasWriteBack(k, v) : k \in ValidIndexes, v \in Nums} \cup
  {AliasArgument(k, v) : k \in ValidIndexes, v \in Nums}

\* let a := [7,8,9] a[ie] = v
IndexWrite(ie, v) ==
  <<Let(<<"a">>, Elements), IndexAssign(<<"a">>, ie, NumberOf(v))>>

\* let a := [7,8,9] let r := a[ie]
IndexRead(ie) == <<Let(<<"a">>, Elements), Let(<<"r">>, Index(<<"a">>, ie))>>

\* what a is bound to when it is not an array of three elements: 1, "a",
\* true, []
Targets ==
  {NumberOf(1), StringLiteral(<<"a">>), BooleanLiteral(TRUE),
   ArrayLiteral(<<>>)}

\* let a := e a[0] = v
TargetWrite(e, v) ==
  <<Let(<<"a">>, e), IndexAssign(<<"a">>, NumberOf(0), NumberOf(v))>>

\* let a := e let r := a[0]
TargetRead(e) ==
  <<Let(<<"a">>, e), Let(<<"r">>, Index(<<"a">>, NumberOf(0)))>>

\* a[0] = 1
UnboundWrite == <<IndexAssign(<<"a">>, NumberOf(0), NumberOf(1))>>

\* let x := 0 func g { x = 1 return 5 } let a := [7,8,9] a[3] = g()
SideEffectWrite ==
  <<Let(<<"x">>, NumberOf(0)),
    FunctionStatement(Ident(<<"g">>), <<>>,
                      <<AssignmentStatement(Ident(<<"x">>), NumberOf(1)),
                        ReturnStatement(NumberOf(5))>>),
    Let(<<"a">>, Elements),
    IndexAssign(<<"a">>, NumberOf(Len(Elements.Elements)),
                Call(<<"g">>, <<>>))>>

IndexPrograms ==
  {IndexWrite(ie, v) : ie \in IndexExpressions, v \in Nums} \cup
  {IndexRead(ie) : ie \in IndexExpressions} \cup
  {TargetWrite(e, v) : e \in Targets, v \in Nums} \cup
  {TargetRead(e) : e \in Targets} \cup
  {UnboundWrite, SideEffectWrite}

ExecPrograms == AliasPrograms \cup IndexPrograms

ExecInit ==
  /\ stmts \in ExecPrograms
  /\ \E r \in {NewDefaultEnvironment(InitialStore)} : st = r.st /\ env = r.env
  /\ pc = "exec"
  /\ input = <<>>
  /\ tokens = <<>>
  /\ lexErr = NoLexerError
  /\ parseErr = NoParserError
  /\ idx = 1
  /\ runErr = NoError
  /\ last = NoOperation
  /\ evals = <<>>
  /\ lines = <<>>

ExecNext == ExecuteStatement \/ ExecuteReturn

ExecSpec == ExecInit /\ [][ExecNext]_vars

\* ------------------------------------------------------------------------
\* Parser.Parse on token sequences of any order, well-formed or not
\* ------------------------------------------------------------------------
\* the sequences hold at most MaxTokens tokens
MaxTokens == 3

\* tokens as the lexer makes them: x, 1, and tokens without a literal
ParseTokens ==
  {Token(IdentToken, <<"x">>, 1, 1), Token(NumberToken, <<"1">>, 1, 1)} \cup
  {Token(t, TokenTypeString(t), 1, 1) :
     t \in {EOFToken, LetToken, DeclareToken, AssignToken, PlusToken,
            LeftParenToken, RightParenToken, IfToken, LeftBraceToken,
            RightBraceToken, ReturnToken}}

\* the tokens that open a loop of the parser: an array literal, a function
\* definition, a while statement, a parameter list
LoopHeads ==
  {Token(t, TokenTypeString(t), 1, 1) :
     t \in {LeftBracketToken, FunctionToken, WhileToken, ColonToken}}

\* what the loops read: x, 1, and the tokens that separate and close
LoopTokens ==
  {Token(IdentToken, <<"x">>, 1, 1), Token(NumberToken, <<"1">>, 1, 1)} \cup
  {Token(t, TokenTypeString(t), 1, 1) :
     t \in {CommaToken, RightBracketToken, ColonToken, LeftBraceToken,
            RightBraceToken}}

\* a head and at most MaxTokens tokens after it
LoopSequences ==
  {<<h>> \o s : h \in LoopHeads,
                s \in UNION {[1..n -> LoopTokens] : n \in 0..MaxTokens}}

TokenSequences ==
  UNION {[1..n -> ParseTokens] : n \in 0..MaxTokens} \cup LoopSequences

ParseInit ==
  /\ tokens \in TokenSequences
  /\ pc = "parse"
  /\ st = InitialStore
  /\ env = 0
  /\ input = <<>>
  /\ lexErr = NoLexerError
  /\ stmts = <<>>
  /\ parseErr = NoParserError
  /\ idx = 1
  /\ runErr = NoError
  /\ last = NoOperation
  /\ evals = <<>>
  /\ lines = <<>>

ParseNext == ExecuteParse

ParseSpec == ParseInit /\ [][ParseNext]_vars

\* ------------------------------------------------------------------------
\* repl: the interactive loop.  One Environment is made before the loop;
\* each pass reads a line, trims it, and runs it through Tokenize and
\* Parser.Execute; every error is printed and the loop goes on.
\* ------------------------------------------------------------------------
\* the loop is followed for MaxInputs lines
MaxInputs == 3

\* let x := 1
LineLetX ==
  <<"l","e","t"," ","x"," ",":","="," ","1">>

\* let y := x + 1
LineLetY ==
  <<"l","e","t"," ","y"," ",":","="," ","x"," ","+"," ","1">>

\* let w := 2 let z := 1 / 0 let v := 3
LineDivide ==
  <<"l","e","t"," ","w"," ",":","="," ","2"," ","l","e","t"," ","z"," ",":",
    "="," ","1"," ","/"," ","0"," ","l","e","t"," ","v"," ",":","="," ","3">>

\* let q := 4 )
LineParse ==
  <<"l","e","t"," ","q"," ",":","="," ","4"," ",")">>

\* let u := 5 $ let t := 6
LineLex ==
  <<"l","e","t"," ","u"," ",":","="," ","5"," ","$"," ","l","e","t"," ","t",
    " ",":","="," ","6">>

\* what reader.ReadString returns: the line with its newline
ReplLines ==
  {line \o <<"\n">> :
     line \in {LineLetX, LineLetY, LineDivide, LineParse, LineLex}} \cup
  {<<" "," ","\n">>}

\* strings.TrimSpace
RECURSIVE TrimLeft(_)
TrimLeft(s) == IF s # <<>> /\ IsSpace(Head(s)) THEN TrimLeft(Tail(s)) ELSE s

RECURSIVE TrimRight(_)
TrimRight(s) ==
  IF s # <<>> /\ IsSpace(s[Len(s)])
  THEN TrimRight(SubSeq(s, 1, Len(s) - 1))
  ELSE s

TrimSpace(s) == TrimRight(TrimLeft(s))

\* the record of a line read, and of how its pass ended: "" while it runs,
\* "empty", "lex", "parse", "runtime" for the continue statements, "done"
Line1(text, end) == [input |-> text, end |-> end]

Ended(end) == [lines EXCEPT ![Len(lines)].end = end]

ReplInit ==
  /\ \E r \in {NewDefaultEnvironment(InitialStore)} : st = r.st /\ env = r.env
  /\ pc = "prompt"
  /\ input = <<>>
  /\ tokens = <<>>
  /\ lexErr = NoLexerError
  /\ stmts = <<>>
  /\ parseErr = NoParserError
  /\ idx = 1
  /\ runErr = NoError
  /\ last = NoOperation
  /\ evals = <<>>
  /\ lines = <<>>

\* a variant of the read that makes a new root Environment for the line;
\* C29 distinguishes the two
ReplReadFresh ==
  /\ pc = "prompt"
  /\ Len(lines) < MaxInputs
  /\ \E line \in ReplLines, e \in {NewEnvironment(st, 0)} :
        /\ input' = TrimSpace(line)
        /\ st' = e.st
        /\ env' = e.env
        /\ IF TrimSpace(line) = <<>>
           THEN pc' = "prompt" /\ lines' = Append(lines, Line1(<<>>, "empty"))
           ELSE /\ pc' = "repl-lex"
                /\ lines' = Append(lines, Line1(TrimSpace(line), ""))
  /\ UNCHANGED <<tokens, lexErr, stmts, parseErr, idx, runErr, last, evals>>

\* repl: ReadString, TrimSpace, and the continue for an empty line
ReplRead ==
  /\ pc = "prompt"
  /\ Len(lines) < MaxInputs
  /\ \E line \in ReplLines :
        /\ input' = TrimSpace(line)
        /\ IF TrimSpace(line) = <<>>
           THEN pc' = "prompt" /\ lines' = Append(lines, Line1(<<>>, "empty"))
           ELSE /\ pc' = "repl-lex"
                /\ lines' = Append(lines, Line1(TrimSpace(line), ""))
  /\ UNCHANGED <<tokens, lexErr, stmts, parseErr, st, env, idx, runErr, last,
                 evals>>

\* repl: lexer.New(input).Tokenize(); an error is printed and the loop
\* goes on
ReplTokenize ==
  /\ pc = "repl-lex"
  /\ \E r \in {Tokenize(NewLexer(input))} :
        /\ tokens' = r.tokens
        /\ lexErr' = r.err
        /\ IF r.err # NoLexerError
           THEN pc' = "prompt" /\ lines' = Ended("lex")
           ELSE pc' = "repl-parse" /\ lines' = lines
  /\ UNCHANGED <<input, stmts, parseErr, st, env, idx, runErr, last, evals>>

\* repl: parser.New(tokens) and the first part of Parser.Execute(env): Parse,
\* whose error is returned, printed, and the loop goes on
ReplParse ==
  /\ pc = "repl-parse"
  /\ \E r \in {Parse(NewParser(tokens))} :
        /\ stmts' = r.statements
        /\ parseErr' = r.err
        /\ IF r.err # NoParserError
           THEN pc' = "prompt" /\ lines' = Ended("parse")
           ELSE pc' = "repl-exec" /\ lines' = lines
  /\ idx' = 1
  /\ UNCHANGED <<input, tokens, lexErr, st, env, runErr, last, evals>>

\* Parser.Execute(env): one pass of the statement loop; its error is
\* returned, printed, and the loop goes on
ReplStatement ==
  /\ pc = "repl-exec"
  /\ idx <= Len(stmts)
  /\ \E r \in {Execute(stmts[idx], env, st)} :
        /\ st' = r.st
        /\ runErr' = r.err
        /\ IF r.err # NoError
           THEN pc' = "prompt" /\ idx' = idx /\ lines' = Ended("runtime")
           ELSE pc' = "repl-exec" /\ idx' = idx + 1 /\ lines' = lines
  /\ UNCHANGED <<input, tokens, lexErr, stmts, parseErr, env, last, evals>>

\* Parser.Execute(env) returned nil: the next pass of the loop
ReplReturn ==
  /\ pc = "repl-exec"
  /\ idx > Len(stmts)
  /\ pc' = "prompt"
  /\ lines' = Ended("done")
  /\ UNCHANGED <<input, tokens, lexErr, stmts, parseErr, st, env, idx, runErr,
                 last, evals>>

ReplNext ==
  ReplRead \/ ReplTokenize \/ ReplParse \/ ReplStatement \/ ReplReturn

ReplSpec == ReplInit /\ [][ReplNext]_vars

\* ------------------------------------------------------------------------
\* properties
\* ------------------------------------------------------------------------
VarX == <<"x">>

VarY == <<"y">>

VarR == <<"r">>

\* the run is over: Parser.Execute returned nil, or an error ended the run
Finished == pc \in {"done", "exit"}

\* name is bound to the number k when looked up from the root Environment
RootIs(name, k) == Root(name).ok /\ Root(name).value = NumberValue(Num(k))

\* name is bound in the map of Environment e itself, to the number k
BoundIn(e, name, k) ==
  /\ name \in DOMAIN Variables(st, e)
  /\ Variables(st, e)[name] = NumberValue(Num(k))

\* the Environments created after the root
InnerEnvs == 2..Len(st.envs)

\* the line print writes for the single number k
Line(k) == <<NumberValue(Num(k))>>

\* some call of NextToken made while scanning from l returns an error
RECURSIVE LexErrorFrom(_)
LexErrorFrom(l) ==
  LET r == NextToken(l)
  IN IF r.err # NoLexerError THEN TRUE
     ELSE IF r.tok.Type = EOFToken THEN FALSE
     ELSE LexErrorFrom(r.l)

\* the text holds a malformed character sequence
Malformed(src) == LexErrorFrom(NewLexer(src))

\* C1: for every text with a malformed character sequence, Tokenize returns
\* a lex error and no tokens.
C1_TokenizeReportsLexError ==
  (pc # "lex" /\ Malformed(input)) =>
    (lexErr # NoLexerError /\ tokens = <<>> /\ pc = "exit")

\* C2: a declaration fails only when the name is bound in the current frame
\* itself; with the name bound only in an enclosing frame (if-branch, loop
\* body, call frame) it succeeds, binds the name in the local frame and
\* leaves the enclosing binding at its value.
C2_DeclarationChecksCurrentFrame ==
  /\ runErr.Msg = "variable already declared" =>
       runErr.Name \in DOMAIN Variables(st, runErr.Env)
  /\ (input \in ShadowSources /\ Finished) =>
       /\ pc = "done"
       /\ BoundIn(env, VarX, 1)
       /\ \E e \in InnerEnvs : BoundIn(e, VarX, 2)

\* C3: ident[expr] = expr parses as one index-assignment statement, and
\* after let a := [1,2,3] a[1] = 9 reading a[1] yields 9.
C3_IndexAssignmentParses ==
  (input = SrcIndexAssign /\ pc \in {"exec", "done", "exit"}) =>
    /\ parseErr = NoParserError
    /\ Len(stmts) = 3
    /\ stmts[2].node = "IndexAssignmentStatement"
    /\ Finished => (pc = "done" /\ RootIs(VarR, 9))

\* C4: precedence and grouping hold in every expression position:
\* a + b * c is a + (b * c), -a * -b is (-a) * (-b), and (a + b) * c is one
\* expression whose value is the product.
C4_PrecedenceAndGrouping ==
  /\ \A a, b, c \in Nums :
       (input = SrcPrecedence(a, b, c) /\ Finished) =>
         (pc = "done" /\ RootIs(VarR, a + b * c))
  /\ \A a, b \in Nums :
       (input = SrcUnaryMinus(a, b) /\ Finished) =>
         (pc = "done" /\ RootIs(VarR, a * b))
  /\ (input \in {SrcPrecedenceAssign, SrcPrecedenceCondition,
                 SrcPrecedenceArgument} /\ Finished) =>
       (pc = "done" /\ RootIs(VarR, 7))
  /\ \A a, b, c \in Nums :
       (input = SrcGroupDeclare(a, b, c) /\ Finished) =>
         (pc = "done" /\ RootIs(VarR, (a + b) * c))
  /\ (input \in {SrcGroupAssign, SrcGroupCondition, SrcGroupArgument}
      /\ Finished) =>
       (pc = "done" /\ RootIs(VarR, 9))

\* C5: the condition of an if or while is coerced by truthiness for every
\* value type and never a runtime error: the then-branch runs (r = 1) iff
\* the condition is truthy, the else-branch (r = 2) otherwise, and
\* while n { n = n - 1 r = r + 1 } runs n times.
C5_ConditionTruthiness ==
  /\ runErr.Msg # "condition must evaluate to boolean"
  /\ \A a \in Nums :
       (input = SrcIfNumber(a) /\ Finished) =>
         (pc = "done" /\ RootIs(VarR, IF a # 0 THEN 1 ELSE 2))
  /\ (input \in {SrcIfString, SrcIfArray, SrcIfTrue} /\ Finished) =>
       (pc = "done" /\ RootIs(VarR, 1))
  /\ (input \in {SrcIfEmptyString, SrcIfEmptyArray, SrcIfFalse, SrcIfVoid}
      /\ Finished) =>
       (pc = "done" /\ RootIs(VarR, 2))
  /\ \A a \in Nums :
       (input = SrcWhileNumber(a) /\ Finished) =>
         (pc = "done" /\ RootIs(VarR, a))

\* s holds a return statement outside every function definition: in s
\* itself or in a block of an if or while of s
RECURSIVE BareReturn(_)
BareReturn(s) ==
  CASE s.node = "ReturnStatement" -> TRUE
    [] s.node = "IfStatement" ->
         \/ \E i \in 1..Len(s.Then) : BareReturn(s.Then[i])
         \/ \E i \in 1..Len(s.Else) : BareReturn(s.Else[i])
    [] s.node = "WhileStatement" ->
         \E i \in 1..Len(s.Body) : BareReturn(s.Body[i])
    [] OTHER -> FALSE

\* C6: a return signal raised in a function body, at any depth of ifs and
\* whiles, ends the body and is caught by the innermost call: it never
\* reaches the statement loop of Parser.Execute from a call, the rest of the
\* body and of its loops does not run (print(99), print(8), print(9) write
\* nothing), and the caller goes on with the returned value.
C6_ReturnCaughtAtCall ==
  /\ IsReturnSignal(runErr) => BareReturn(stmts[idx])
  /\ (input = SrcReturnNested /\ Finished) =>
       /\ pc = "done"
       /\ RootIs(VarR, 2)
       /\ st.out = <<Line(98), Line(98), Line(2), Line(7)>>
  /\ (input = SrcReturnRecursive /\ Finished) =>
       (pc = "done" /\ st.out = <<Line(6), Line(0)>>)
  /\ (input = SrcReturnInnerCall /\ Finished) =>
       (pc = "done" /\ st.out = <<Line(1), Line(2), Line(3)>>)

C6_Witness ==
  /\ pc = "done"
  /\ input = SrcReturnNested
  /\ st.out = <<Line(98), Line(98), Line(2), Line(7)>>

\* C7: a call with fewer arguments than parameters fails with "too few
\* arguments", one with more fails with "too many arguments", and in both
\* cases nothing of the body runs (no call frame, no output, r unbound);
\* with equal counts the parameters are bound by position: sub(a, b) is
\* a - b and add(2, 3) is 5.
C7_ArgumentCount ==
  /\ \A a, b \in Nums :
       (input = SrcSub(a, b) /\ Finished) =>
         (pc = "done" /\ RootIs(VarR, a - b))
  /\ (input = SrcAdd /\ Finished) =>
       (pc = "done" /\ RootIs(VarR, 5) /\ st.out = <<Line(1)>>)
  /\ (input = SrcTooFew /\ Finished) =>
       /\ pc = "exit"
       /\ runErr.Msg = "too few arguments for function"
       /\ st.out = <<>> /\ InnerEnvs = {} /\ ~Root(VarR).ok
  /\ (input \in {SrcTooMany, SrcNoParameters} /\ Finished) =>
       /\ pc = "exit"
       /\ runErr.Msg = "too many arguments for function"
       /\ st.out = <<>> /\ InnerEnvs = {} /\ ~Root(VarR).ok

C7_Witness ==
  /\ pc = "exit"
  /\ input = SrcTooFew
  /\ runErr.Msg = "too few arguments for function"

\* C8: the result of a call is the value of the return expression of the
\* return statement that ended the body, and Void when the body ends
\* without a return or with a return that has no expression.
C8_CallResult ==
  /\ \A a \in Nums :
       (input = SrcReturnValue(a) /\ Finished) =>
         (pc = "done" /\ RootIs(VarR, a))
  /\ \A a \in Nums :
       (input = SrcReturnInIf(a) /\ Finished) =>
         /\ pc = "done"
         /\ Root(VarR).ok
         /\ Root(VarR).value =
              IF a = 1 THEN NumberValue(Num(5)) ELSE VoidValue
  /\ (input \in {SrcNoReturn, SrcBareReturn, SrcEmptyBody} /\ Finished) =>
       (pc = "done" /\ Root(VarR).ok /\ Root(VarR).value = VoidValue)

C8_Witness ==
  /\ pc = "done"
  /\ input = SrcBareReturn
  /\ Root(VarR).ok
  /\ Root(VarR).value = VoidValue

\* the store right after NewDefaultEnvironment, before any statement
StoreAtStart == NewDefaultEnvironment(InitialStore).st

\* C9: x = e fails with a runtime error and changes no frame when no frame
\* of the chain binds x; otherwise it replaces the value in the nearest
\* frame that binds x and binds x in no frame between.
C9_AssignmentOwner ==
  /\ (pc = "exit" /\ runErr.Msg = "undefined variable") =>
       ~Get(st, runErr.Env, runErr.Name).ok
  /\ (input = SrcAssignUndefined /\ Finished) =>
       /\ pc = "exit"
       /\ runErr.Msg = "undefined variable"
       /\ runErr.Name = VarX
       /\ st = StoreAtStart
  /\ (input = SrcAssignUndefinedInner /\ Finished) =>
       /\ pc = "exit"
       /\ runErr.Msg = "undefined variable"
       /\ runErr.Name = VarX
       /\ DOMAIN Variables(st, env) = {print, VarY}
       /\ \A e \in InnerEnvs : Variables(st, e) = EmptyMap
  /\ \A a \in Nums :
       (input = SrcAssignOuter(a) /\ Finished) =>
         /\ pc = "done"
         /\ BoundIn(env, VarX, a)
         /\ \A e \in InnerEnvs : Variables(st, e) = EmptyMap
  /\ (input = SrcAssignOuterNested /\ Finished) =>
       /\ pc = "done"
       /\ BoundIn(env, VarX, 3)
       /\ \A e \in InnerEnvs : Variables(st, e) = EmptyMap
  /\ (input = SrcAssignFromCall /\ Finished) =>
       /\ pc = "done"
       /\ BoundIn(env, VarX, 5)
       /\ \A e \in InnerEnvs : Variables(st, e) = EmptyMap
  /\ (input = SrcAssignWhile /\ Finished) =>
       /\ pc = "done"
       /\ BoundIn(env, VarX, 2)
       /\ \A e \in InnerEnvs : Variables(st, e) = EmptyMap
  /\ (input = SrcAssignParameter /\ Finished) =>
       /\ pc = "done"
       /\ BoundIn(env, VarX, 1)
       /\ \A e \in InnerEnvs : BoundIn(e, VarX, 7)

C9_Witness ==
  /\ pc = "done"
  /\ input = SrcAssignOuterNested
  /\ Len(st.envs) = 3
  /\ BoundIn(env, VarX, 3)

\* C10: declaring a name again in the same scope is a runtime error that
\* leaves the binding at its value (let x := a let x := b ends with the
\* error and x = a), and a plain assignment to a declared name succeeds
\* (let x := a x = b ends with x = b).
C10_RedeclarationRejected ==
  /\ \A a, b \in Nums :
       (input = SrcRedeclare(a, b) /\ Finished) =>
         /\ pc = "exit"
         /\ runErr.Msg = "variable already declared"
         /\ runErr.Name = VarX
         /\ BoundIn(env, VarX, a)
  /\ (input = SrcRedeclareInner /\ Finished) =>
       /\ pc = "exit"
       /\ runErr.Msg = "variable already declared"
       /\ runErr.Name = VarY
       /\ BoundIn(env, VarR, 0)
       /\ \A e \in InnerEnvs : BoundIn(e, VarY, 1)
  /\ \A a, b \in Nums :
       (input = SrcReassign(a, b) /\ Finished) =>
         (pc = "done" /\ runErr = NoError /\ BoundIn(env, VarX, b))

C10_Witness ==
  /\ pc = "exit"
  /\ input = SrcRedeclare(1, 2)
  /\ runErr.Msg = "variable already declared"
  /\ BoundIn(env, VarX, 1)

\* the Environments from e to the root of its chain
RECURSIVE ChainOf(_, _)
ChainOf(s, e) ==
  IF e = 0 THEN {} ELSE {e} \cup ChainOf(s, s.envs[e].parent)

\* the Environments of the chain of e whose own map holds name
Holders(s, e, name) ==
  {f \in ChainOf(s, e) : name \in DOMAIN Variables(s, f)}

\* the nearest of them, 0 if there is none: a parent is created before its
\* children, so the nearest holder is the one created last
Owner(s, e, name) ==
  IF Holders(s, e, name) = {} THEN 0
  ELSE CHOOSE f \in Holders(s, e, name) :
         \A g \in Holders(s, e, name) : g <= f

\* the map of Environment f is as it was before the last operation
SameMap(f) == Variables(st, f) = Variables(last.before, f)

\* C11: Set on a name that no frame of the chain holds inserts the binding
\* into the frame Set was called on and changes no other frame; Set on a
\* name some frame holds writes the nearest such frame and no other.
C11_SetInsertsLocally ==
  last.op = "Set" =>
    LET owner == Owner(last.before, last.env, last.name)
        target == IF owner = 0 THEN last.env ELSE owner
    IN /\ last.name \in DOMAIN Variables(st, target)
       /\ Variables(st, target)[last.name] = last.value
       /\ \A f \in 1..Len(st.envs) : f # target => SameMap(f)

\* C12: Get on a frame returns the value of the nearest frame of its chain
\* that holds the name and reports not-found exactly when none does; Define
\* binds the name in the frame it is called on and changes nothing else.
C12_GetNearestDefineLocal ==
  /\ \A e \in 1..Len(st.envs), name \in EnvNames \cup {print} :
        /\ Get(st, e, name).ok <=> Owner(st, e, name) # 0
        /\ Owner(st, e, name) # 0 =>
             Get(st, e, name).value = Variables(st, Owner(st, e, name))[name]
  /\ last.op = "Define" =>
        /\ last.name \in DOMAIN Variables(st, last.env)
        /\ Variables(st, last.env)[last.name] = last.value
        /\ \A name \in DOMAIN Variables(last.before, last.env) \ {last.name} :
             /\ name \in DOMAIN Variables(st, last.env)
             /\ Variables(st, last.env)[name] =
                  Variables(last.before, last.env)[name]
        /\ \A f \in 1..Len(st.envs) : f # last.env => SameMap(f)

\* a Define in an inner frame has shadowed a binding of its parent: the inner
\* frame reads the new value, the parent still reads the old one
C12_Witness ==
  /\ last.op = "Define"
  /\ st.envs[last.env].parent # 0
  /\ Get(last.before, last.env, last.name).ok
  /\ Get(st, last.env, last.name).value = last.value
  /\ Get(st, st.envs[last.env].parent, last.name).ok
  /\ Get(st, st.envs[last.env].parent, last.name).value # last.value

\* the names the top-level statements of a program declare or define
TopLevelNames(statements) ==
  {statements[k].Identifier.Name :
     k \in {n \in 1..Len(statements) :
              statements[n].node = "DeclarationStatement"}} \cup
  {statements[k].Name.Name :
     k \in {n \in 1..Len(statements) :
              statements[n].node = "FunctionStatement"}}

\* C13: two evaluations with separate roots from NewDefaultEnvironment share
\* no mutable state: a lookup in one evaluation's root finds only print and
\* the names that evaluation's own program declares or defines, never a
\* binding the other evaluation made.
C13_SeparateRootsShareNothing ==
  \A i \in Evaluations :
    evals # <<>> /\ evals[i].env # 0 =>
      \A name \in {VarX, VarR, <<"f">>} :
        Get(st, evals[i].env, name).ok =>
          name \in TopLevelNames(evals[i].stmts)

\* C14: arrays are shared by reference: after an element is written through
\* one binding of an array (a, or b after let b := a, or the parameter the
\* array was passed as), the run completes and reading that index through
\* another binding of the array yields the value written.
C14_ArraysSharedByReference ==
  Finished /\ stmts \in AliasPrograms =>
    /\ pc = "done"
    /\ \A k \in ValidIndexes, v \in Nums :
         stmts \in {AliasWrite(k, v), AliasWriteBack(k, v),
                    AliasArgument(k, v)} => RootIs(VarR, v)

\* the element written through the parameter of f is read through a
C14_Witness ==
  /\ pc = "done"
  /\ stmts = AliasArgument(1, 2)
  /\ RootIs(VarR, 2)

\* the statement Parser.Execute is about to execute
Current == stmts[idx]

\* it is an index assignment
IsIndexWrite ==
  /\ pc = "exec" /\ idx <= Len(stmts)
  /\ Current.node = "IndexAssignmentStatement"

\* it is a declaration whose initializer reads an element
IsIndexRead ==
  /\ pc = "exec" /\ idx <= Len(stmts)
  /\ Current.node = "DeclarationStatement"
  /\ Current.Value.node = "PostfixExpression"

\* the target is unbound or not an Array
BadTarget(t) == ~t.ok \/ t.value.Type # Array

\* the index is not a Number, or is a number below 0 or at or above len
BadIndex(v, len) ==
  \/ v.Type # Number
  \/ RatLess(v.Number, Num(0))
  \/ ~RatLess(v.Number, Num(len))

\* the index is not a Number, or its integer part is below 0 or at or above
\* len
BadIntegerIndex(v, len) ==
  \/ v.Type # Number
  \/ RatInt(v.Number) < 0
  \/ RatInt(v.Number) >= len

\* the target and the index of the index assignment about to execute
WriteTarget == Get(st, env, Current.Left.Name)

WriteIndex == Eval(Current.Index, env, st).v

\* the target and the index of the element read about to execute
ReadTarget == Get(st, env, Current.Value.Left.Name)

ReadIndex == Eval(Current.Value.Index, env, st).v

\* the store after the index and value expressions of the index assignment
\* about to execute were evaluated (they are not when the target is bad)
OperandsStore ==
  IF BadTarget(WriteTarget) THEN st
  ELSE Eval(Current.Value, env, Eval(Current.Index, env, st).st).st

\* C15 as stated: an element read or write with an index below 0 or at or
\* above the length, with a non-Number index, or on a target that is not an
\* Array is a runtime error, and a failed index assignment leaves every
\* element and every binding unchanged.
C15_IndexErrors ==
  [][/\ (/\ IsIndexWrite
         /\ \/ BadTarget(WriteTarget)
            \/ BadIndex(WriteIndex, ArrayLen(st, WriteTarget.value))) =>
          (runErr'.Kind = "error" /\ st' = st)
     /\ (/\ IsIndexRead
         /\ \/ BadTarget(ReadTarget)
            \/ BadIndex(ReadIndex, ArrayLen(st, ReadTarget.value))) =>
          runErr'.Kind = "error"]_vars

\* C15 amended: the index counts by its integer part (truncated toward
\* zero), and a failed index assignment writes no element and no binding
\* itself: the store is as the evaluation of its index and value expressions
\* left it.
C15_IntegerIndexErrors ==
  [][/\ (/\ IsIndexWrite
         /\ \/ BadTarget(WriteTarget)
            \/ BadIntegerIndex(WriteIndex, ArrayLen(st, WriteTarget.value))) =>
          (runErr'.Kind = "error" /\ st' = OperandsStore)
     /\ (/\ IsIndexRead
         /\ \/ BadTarget(ReadTarget)
            \/ BadIntegerIndex(ReadIndex, ArrayLen(st, ReadTarget.value))) =>
          runErr'.Kind = "error"]_vars

\* an index assignment at the length of the array has failed and the three
\* elements are as they were
C15_Witness ==
  /\ pc = "exit"
  /\ stmts = IndexWrite(NumberOf(Len(Elements.Elements)), 1)
  /\ runErr.Msg = "index out of bounds"
  /\ st.heap = <<<<NumberValue(Num(7)), NumberValue(Num(8)),
                   NumberValue(Num(9))>>>>

\* C16: a / b with Number operands and b = 0 is a runtime error and never a
\* value, for every a including 0: the declaration of r fails with "division
\* by zero" and binds nothing; with b # 0 the quotient is the value.
C16_DivisionByZero ==
  Finished =>
    \A a \in Nums, b \in Nums :
      /\ input = SrcDivide(a, b) /\ b = 0 =>
           pc = "exit" /\ runErr.Msg = "division by zero" /\ ~Root(VarR).ok
      /\ input = SrcDivide(a, b) /\ b # 0 =>
           /\ pc = "done"
           /\ Root(VarR).ok
           /\ Root(VarR).value = NumberValue(Rat(a, b))
      /\ input = SrcDivideComputed(a, b) =>
           pc = "exit" /\ runErr.Msg = "division by zero" /\ ~Root(VarR).ok

\* 0 / 0 has ended the run with the error
C16_Witness ==
  /\ pc = "exit"
  /\ input = SrcDivide(0, 0)
  /\ runErr.Msg = "division by zero"

\* some statement parses from the start of the tokens
FirstStatementParses == IsOk(parseStatement(NewParser(tokens)))

\* C17: for every token sequence Parse returns either statements and no
\* error or an error and no statements: an error comes with an empty
\* statement list even when statements were parsed before the violation,
\* and without an error every token went into some statement.
C17_ParseAllOrNothing ==
  pc # "parse" =>
    /\ pc = "exit" <=> parseErr # NoParserError
    /\ parseErr # NoParserError => stmts = <<>>
    /\ parseErr = NoParserError =>
         /\ Len(stmts) <= Len(tokens)
         /\ tokens # <<>> => stmts # <<>>
         /\ \A k \in 1..Len(stmts) : stmts[k].node # "nil"

\* the first statement parsed, a later one did not, and no statement is
\* returned
C17_Witness ==
  /\ pc = "exit"
  /\ FirstStatementParses
  /\ parseErr # NoParserError
  /\ stmts = <<>>

\* r is bound to the Boolean b when looked up from the root Environment
RootIsBoolean(b) == Root(VarR).ok /\ Root(VarR).value = BooleanValue(b)

\* C18: &&, ||, ! , == and != on operands that are neither Number nor String
\* coerce each operand by truthiness and yield a Boolean instead of failing:
\* a non-empty array and a function are true, Void is false, so with
\* a = [1], a == a and a && a are true, !a is false, f != f is false for a
\* function f, and Void || Void is false.
C18_TruthinessOperators ==
  Finished /\ input \in TruthinessSources =>
    /\ pc = "done"
    /\ input \in {SrcArrayEqual, SrcArrayAnd} => RootIsBoolean(TRUE)
    /\ input \in {SrcArrayNot, SrcFunctionNotEqual, SrcVoidOr,
                   SrcBooleanEqual} => RootIsBoolean(FALSE)

\* the table of reserved words: the token type of a reserved word, IdentToken
\* for every other word
Reserved(w) ==
  CASE w = <<"l","e","t">> -> LetToken
    [] w = <<"i","f">> -> IfToken
    [] w = <<"e","l","s","e">> -> ElseToken
    [] w = <<"w","h","i","l","e">> -> WhileToken
    [] w = <<"t","r","u","e">> -> TrueToken
    [] w = <<"f","a","l","s","e">> -> FalseToken
    [] w = <<"f","u","n","c">> -> FunctionToken
    [] w = <<"r","e","t","u","r","n">> -> ReturnToken
    [] OTHER -> IdentToken

\* tok is the token of the word w
TokenOfWord(tok, w) ==
  /\ tok.Type = Reserved(w)
  /\ Reserved(w) = IdentToken => tok.Literal = w

\* C19: every maximal run of letters, digits and underscores that starts
\* with a letter or an underscore becomes one token: the keyword token when
\* the run is one of the eight reserved words, else an identifier token
\* whose literal is the run.  Two words separated by a space give two tokens.
C19_WordsBecomeTokens ==
  pc # "lex" =>
    \A v \in Words, w \in Words :
      input = SrcWords(v, w) =>
        /\ lexErr = NoLexerError
        /\ Len(tokens) = 2
        /\ TokenOfWord(tokens[1], v)
        /\ TokenOfWord(tokens[2], w)

\* C20 as stated: for every text that tokenizes without error the token
\* sequence ends with an end-of-input token, and an end-of-input token occurs
\* nowhere else in it.
C20_EndsWithEndOfInput ==
  pc # "lex" /\ lexErr = NoLexerError =>
    /\ Len(tokens) >= 1
    /\ tokens[Len(tokens)].Type = EOFToken
    /\ \A k \in 1..(Len(tokens) - 1) : tokens[k].Type # EOFToken

\* C20 amended: the token sequence Tokenize returns holds no end-of-input
\* token at all: the end-of-input token NextToken yields ends the loop and
\* is not appended, so the end of the sequence stands for the end of input.
C20_NoEndOfInputToken ==
  pc # "lex" => \A k \in 1..Len(tokens) : tokens[k].Type # EOFToken

\* let x := 1 x = 2 was tokenized: seven tokens, the last one the number 2
C20_Witness ==
  /\ pc = "parse"
  /\ input = SrcReassign(1, 2)
  /\ Len(tokens) = 7
  /\ tokens[7].Type = NumberToken

\* the tokens of `x` and of `x + 1`
TokX == Token(IdentToken, <<"x">>, 1, 1)

TokensLoneX == <<TokX>>

TokensXPlusOne ==
  <<TokX, Token(PlusToken, TokenTypeString(PlusToken), 1, 1),
    Token(NumberToken, <<"1">>, 1, 1)>>

\* C21: a statement that begins with an identifier and is neither an
\* assignment nor a call parses to an expression statement whose expression
\* holds that identifier: `x` to the statement of the identifier x, `x + 1`
\* to the statement of the binary expression with left operand x.
C21_BareExpressionKeepsIdentifier ==
  pc # "parse" =>
    /\ tokens = TokensLoneX =>
         /\ parseErr = NoParserError
         /\ stmts = <<ExpressionStatement(Identifier(TokX))>>
    /\ tokens = TokensXPlusOne =>
         /\ parseErr = NoParserError
         /\ Len(stmts) = 1
         /\ stmts[1].node = "ExpressionStatement"
         /\ stmts[1].Expr.node = "BinaryExpression"
         /\ stmts[1].Expr.Left = Identifier(TokX)

VarF == <<"f">>

\* f is bound in the map of the root Environment itself
RootBinds(name) == name \in DOMAIN Variables(st, env)

\* f is bound in the map of some Environment created after the root
InnerBinds(name) == \E e \in InnerEnvs : name \in DOMAIN Variables(st, e)

\* C22: a function definition executed in an inner scope (if-branch, loop
\* body, call frame) replaces the binding of an enclosing frame that has the
\* name and adds none to the inner frame; when no frame has the name, the
\* function is stored in the inner frame, so the call after the scope has
\* ended finds no function.
C22_FunctionDefinitionScope ==
  Finished =>
    /\ \A a \in Nums :
         input \in {SrcFuncRedefineIf(a), SrcFuncRedefineWhile(a),
                    SrcFuncRedefineCall(a)} =>
           /\ pc = "done"
           /\ RootIs(VarR, a)
           /\ ~InnerBinds(VarF)
    /\ input \in {SrcFuncInIf, SrcFuncInWhile, SrcFuncInCall} =>
         /\ pc = "exit"
         /\ runErr.Msg = "undefined function"
         /\ runErr.Name = VarF
         /\ ~RootBinds(VarF)
         /\ InnerBinds(VarF)

VarA == <<"a">>

VarZ == <<"z">>

\* the run ended with the runtime error msg about name
RunError(msg, name) ==
  pc = "exit" /\ runErr.Msg = msg /\ runErr.Name = name

\* C23: the arguments of a call are evaluated in the caller's Environment and
\* see no parameter of the call being set up (the a of `f(9, a)` is the
\* caller's a, or undefined when the caller has none, never the 9 bound to
\* the parameter a); the call frame is a child of the caller's Environment,
\* so the body finds the caller's local y, and it does not find the local z
\* of the scope the function was defined in.
C23_CallScope ==
  Finished =>
    /\ \A a \in Nums :
         /\ input = SrcArgCaller(a) => pc = "done" /\ RootIs(VarR, a)
         /\ input = SrcDynamic(a) =>
              /\ pc = "done"
              /\ RootIs(VarR, a)
              /\ Len(st.envs) = 3
              /\ st.envs[2].parent = env
              /\ st.envs[3].parent = 2
    /\ input = SrcArgUnbound =>
         RunError("undefined variable", VarA) /\ runErr.Env = env
    /\ input = SrcNoCapture => RunError("undefined variable", VarZ)

\* the body of f, called from g, read the y of g's frame
C23_Witness ==
  /\ pc = "done"
  /\ input = SrcDynamic(2)
  /\ RootIs(VarR, 2)
  /\ st.envs[3].parent = 2

VarI == <<"i">>

VarC == <<"c">>

VarT == <<"t">>

\* 1 + 2 + ... + n
RECURSIVE SumTo(_)
SumTo(n) == IF n = 0 THEN 0 ELSE n + SumTo(n - 1)

\* C24: a while loop evaluates its condition in the enclosing Environment
\* before every pass (n passes take n + 1 evaluations, the last one false)
\* and runs the body of each pass in a new child of that Environment: the t
\* a pass declares is unbound in the next pass, which declares it again, and
\* after the loop, while the assignments to s and i of the enclosing
\* Environment are kept from pass to pass and after the loop.
C24_WhileLoop ==
  Finished =>
    /\ \A n \in Nums :
         /\ input = SrcWhileDeclare(n) =>
              /\ pc = "done"
              /\ RootIs(VarR, SumTo(n))
              /\ RootIs(VarI, n)
              /\ ~Root(VarT).ok
              /\ Len(st.envs) = 1 + n
              /\ \A e \in InnerEnvs : st.envs[e].parent = env
         /\ input = SrcWhileCount(n) =>
              /\ pc = "done"
              /\ RootIs(VarC, n + 1)
              /\ RootIs(VarI, n)
    /\ input = SrcWhileAfter => RunError("undefined variable", VarT)

\* two passes, each with its own t, and the sum they left in s
C24_Witness ==
  /\ pc = "done"
  /\ input = SrcWhileDeclare(2)
  /\ RootIs(VarR, 3)
  /\ BoundIn(2, VarT, 1)
  /\ BoundIn(3, VarT, 2)

VarU == <<"u">>

\* C25: a runtime error ends the run at the statement that raised it: it
\* comes out of the function call, the if-block and the loop around it as it
\* was raised (the call does not turn it into a result), no later statement
\* runs (x is never 7, 8 or 6, nothing is printed, r is not declared), and
\* the assignment made before the error stays.
C25_ErrorPropagates ==
  /\ runErr # NoError => pc = "exit" /\ idx <= Len(stmts)
  /\ Finished =>
       \A a \in Nums :
         /\ input = SrcErrorNested(a) =>
              /\ pc = "exit"
              /\ idx = 4
              /\ runErr = Errorf("division by zero", <<>>, 4)
              /\ st.envs[4].parent = 3
              /\ RootIs(VarX, a)
              /\ ~Root(VarR).ok
              /\ st.out = <<>>
         /\ input = SrcErrorTop(a) =>
              /\ pc = "exit"
              /\ idx = 2
              /\ runErr = Errorf("division by zero", <<>>, env)
              /\ RootIs(VarX, a)
              /\ st.out = <<>>
         /\ input = SrcErrorCall(a) =>
              /\ pc = "exit"
              /\ idx = 3
              /\ runErr = Errorf("undefined variable", VarU, 2)
              /\ RootIs(VarX, a)
              /\ ~Root(VarR).ok
              /\ st.out = <<>>

\* the division by zero in the body of f, called in an if-block in a loop,
\* ended the run at the while statement
C25_Witness ==
  /\ pc = "exit"
  /\ input = SrcErrorNested(2)
  /\ idx = 4
  /\ runErr.Msg = "division by zero"
  /\ RootIs(VarX, 2)

\* the token type of a comparison operator
CompareToken(o) ==
  CASE o = <<"=","=">> -> EqualToken
    [] o = <<"!","=">> -> NotEqualToken
    [] o = <<"<">> -> LTToken
    [] o = <<"<","=">> -> LEQToken
    [] o = <<">">> -> GTToken
    [] o = <<">","=">> -> GEQToken

\* the statement `let r := 1 {o} 2` stands for
Comparison(o) ==
  Let(VarR, BinaryExpression(NumberOf(1), CompareToken(o), NumberOf(2)))

\* Parse has returned
Parsed == pc \notin {"lex", "parse"}

\* C26: comparison operators do not chain.  One comparison parses to the
\* binary expression of its operator; a second comparison operator after
\* its right operand, in an initializer or in a condition, is a parse error
\* at that operator, and no statement is returned.
C26_ComparisonDoesNotChain ==
  Parsed =>
    \A o1 \in CompareOperators :
      /\ input = SrcCompare(o1) =>
           /\ parseErr = NoParserError
           /\ stmts = <<Comparison(o1)>>
      /\ \A o2 \in CompareOperators :
           input \in {SrcChain(o1, o2), SrcChainIf(o1, o2)} =>
             /\ pc = "exit"
             /\ parseErr # NoParserError
             /\ parseErr.Token.Type = CompareToken(o2)
             /\ stmts = <<>>

\* `let r := 1 < 2 <= 3` ended with a parse error at `<=`
C26_Witness ==
  /\ pc = "exit"
  /\ input = SrcChain(<<"<">>, <<"<","=">>)
  /\ parseErr.Token.Type = LEQToken
  /\ stmts = <<>>

\* the first of the three conditions that is true, 4 when none is
FirstTrue(a, b, c) == IF a THEN 1 ELSE IF b THEN 2 ELSE IF c THEN 3 ELSE 4

\* the Environments whose own map binds name
Binders(name) == {e \in 1..Len(st.envs) : name \in DOMAIN Variables(st, e)}

\* the if statement of the chain that is nested k - 1 else-blocks deep
RECURSIVE ChainLink(_, _)
ChainLink(s, k) == IF k = 1 THEN s ELSE ChainLink(s.Else[1], k - 1)

\* the block of condition k (4: the final else-block) is the only block
\* that ran: its t is the only t, in the child frame of the if statement the
\* block belongs to, and n if statements were entered
OnlyBlock(k, n) ==
  /\ Len(st.envs) = n + 1
  /\ \A e \in InnerEnvs : st.envs[e].parent = e - 1
  /\ Binders(VarT) = {n + 1}
  /\ BoundIn(n + 1, VarT, k)

\* no block ran
NoBlock == Binders(VarT) = {}

\* C27: an else-if chain is parsed as nested if statements, each alone in
\* the else-block before it.  With a final else exactly one block runs, and
\* without one at most one: the block of the first true condition, else the
\* final else-block.  A condition after the first true one is not evaluated
\* (the undefined u raises no error then), and the t the block declares
\* lives in a new child frame and is unbound after the statement.
C27_IfChain ==
  Finished =>
    \A a \in BOOLEAN, b \in BOOLEAN, c \in BOOLEAN :
      LET k == FirstTrue(a, b, c)
          n == IF k = 4 THEN 3 ELSE k
      IN /\ input \in {SrcIfChain(a, b, c), SrcIfChainNoElse(a, b, c)} =>
              /\ pc = "done"
              /\ Len(stmts) = 1
              /\ \A j \in 1..3 : ChainLink(stmts[1], j).node = "IfStatement"
              /\ \A j \in 1..2 : Len(ChainLink(stmts[1], j).Else) = 1
              /\ ~Root(VarT).ok
         /\ input = SrcIfChain(a, b, c) => OnlyBlock(k, n)
         /\ input = SrcIfChainNoElse(a, b, c) =>
              IF k = 4 THEN NoBlock ELSE OnlyBlock(k, n)
         /\ input = SrcIfChainStop(a, b) =>
              IF a \/ b
              THEN pc = "done" /\ OnlyBlock(k, n) /\ ~Root(VarT).ok
              ELSE RunError("undefined variable", VarU) /\ NoBlock

\* the second condition was the first true one: its block ran in the frame
\* of the second if statement, and the third condition was not evaluated
C27_Witness ==
  /\ pc = "done"
  /\ input = SrcIfChainStop(FALSE, TRUE)
  /\ OnlyBlock(2, 2)

\* the parser at position c of the tokens
At(c) == [tokens |-> tokens, current |-> c]

\* a call that started at position c and returned r without an error
\* consumed at least one token, and no more than there are
Progress(r, c) ==
  IsOk(r) => r.p.current > c /\ r.p.current <= Len(tokens)

\* how many tokens have one of the types
Count(types) == Cardinality({k \in 1..Len(tokens) : tokens[k].Type \in types})

\* more blocks, brackets and parentheses are opened than are closed
Unclosed ==
  Count({LeftBraceToken, LeftBracketToken, LeftParenToken}) >
    Count({RightBraceToken, RightBracketToken, RightParenToken})

\* every pass of a loop of the parser consumes a token or ends in an error:
\* a statement (program and block bodies), a logical expression (array
\* elements), an expression (call arguments, operands of the operator
\* chains), a parameter list
LoopsConsume ==
  \A c \in 0..Len(tokens) :
    /\ Progress(parseStatement(At(c)), c)
    /\ Progress(parseLogicalExpression(At(c)), c)
    /\ Progress(parseExpression(At(c)), c)
    /\ Progress(parseArgumentStatement(At(c)), c)

\* C28: Parse terminates on every token sequence: each pass of each of its
\* loops consumes a token or ends in an error, so no loop runs more passes
\* than there are tokens, and tokens that end inside an unclosed block,
\* bracket or parenthesis give a parse error.
C28_ParseTerminates ==
  /\ pc = "parse" => LoopsConsume
  /\ Parsed /\ Unclosed => parseErr # NoParserError

\* Parse returned an error for `if x {`
C28_Witness ==
  /\ pc = "exit"
  /\ Len(tokens) = 3
  /\ tokens[1].Type = IfToken
  /\ tokens[2].Type = IdentToken
  /\ tokens[3].Type = LeftBraceToken
  /\ parseErr # NoParserError

\* ------------------------------------------------------------------------
\* C29: the interactive loop
\* ------------------------------------------------------------------------
VarW == <<"w">>

VarV == <<"v">>

VarQ == <<"q">>

ReplLabels == {"prompt", "repl-lex", "repl-parse", "repl-exec"}

\* line i of the inputs read is the text, and its pass ended as end
LineEnded(i, text, end) == lines[i].input = text /\ lines[i].end = end

\* line i of the inputs read is the text, and its pass has ended
LineOver(i, text) == lines[i].input = text /\ lines[i].end # ""

\* what the inputs read so far have left in the Environment of the loop
BindingsVisible ==
  /\ ~RootBinds(VarQ)
  /\ \A i \in 1..Len(lines) :
       /\ LineEnded(i, LineLetX, "done") => RootIs(VarX, 1)
       /\ LineOver(i, LineParse) => lines[i].end = "parse"
       /\ LineOver(i, LineDivide) =>
            /\ lines[i].end = "runtime"
            /\ RootIs(VarW, 2)
            /\ ~RootBinds(VarZ)
            /\ ~RootBinds(VarV)
       /\ /\ LineOver(i, LineLetY)
          /\ \E j \in 1..(i - 1) : LineEnded(j, LineLetX, "done")
          /\ \A j \in 1..(i - 1) : lines[j].input # LineLetY
          => lines[i].end = "done" /\ RootIs(VarY, 2)

\* C29: in the interactive loop one Environment serves every input.  No step
\* replaces it or removes a name from it, so a binding made by a statement
\* that completed is found by the inputs after it (y := x + 1 gives 2 once
\* x := 1 has run, whatever failed in between); a lex, parse or runtime
\* error takes the loop back to the prompt and never out of it; a runtime
\* error keeps the bindings of the statements before the failing one and
\* runs none after it; an input that fails to parse leaves the store as it
\* was, so none of its statements ran.
C29_ReplSharedEnvironment ==
  [][/\ env' = env
     /\ DOMAIN Variables(st, env) \subseteq DOMAIN Variables(st', env')
     /\ pc' \in ReplLabels
     /\ pc = "repl-parse" /\ parseErr' # NoParserError =>
          st' = st /\ pc' = "prompt"
     /\ runErr' # NoError /\ pc = "repl-exec" /\ idx <= Len(stmts) =>
          pc' = "prompt"
     /\ BindingsVisible']_vars

\* the loop has read x := 1, then the input whose third statement divides
\* by zero, then y := x + 1, and y is 2
C29_Witness ==
  /\ Len(lines) = 3
  /\ LineEnded(1, LineLetX, "done")
  /\ LineEnded(2, LineDivide, "runtime")
  /\ LineEnded(3, LineLetY, "done")
  /\ RootIs(VarY, 2)
  /\ RootIs(VarW, 2)
  /\ pc = "prompt"

\* ------------------------------------------------------------------------
\* C30: operand order of a binary expression
\* ------------------------------------------------------------------------
\* name is bound to the Boolean b when looked up from the root Environment
RootIsBool(name, b) == Root(name).ok /\ Root(name).value = BooleanValue(b)

\* the result of the logical operator o on the Booleans b and c
Logical(b, o, c) == IF o = <<"&","&">> THEN b /\ c ELSE b \/ c

\* C30: a binary expression evaluates its left operand, then its right
\* operand, then applies the operator, and `&&` and `||` are no exception:
\* with a left operand that already settles the result (false &&, true ||)
\* the call on the right still assigns the outer x, and the division by zero
\* on the right still ends the run; the left call's assignment comes before
\* the right call's (x ends as (1 + 1) * 2).  Only an error of the left
\* operand keeps the right operand from being evaluated.
C30_NoShortCircuit ==
  Finished =>
    /\ \A b \in BOOLEAN, o \in LogicalOperators :
         /\ \A c \in BOOLEAN :
              /\ input = SrcLogicalEffect(b, o, c) =>
                   /\ pc = "done"
                   /\ RootIs(VarX, 1)
                   /\ RootIsBool(VarR, Logical(b, o, c))
              /\ input = SrcLogicalOrder(b, o, c) =>
                   /\ pc = "done"
                   /\ RootIs(VarX, 4)
                   /\ RootIsBool(VarR, Logical(b, o, c))
         /\ input = SrcLogicalError(b, o) =>
              /\ pc = "exit"
              /\ idx = 2
              /\ runErr.Msg = "division by zero"
              /\ ~Root(VarR).ok
    /\ \A o \in LogicalOperators :
         input = SrcLogicalLeftError(o) =>
           /\ pc = "exit"
           /\ idx = 3
           /\ runErr.Msg = "division by zero"
           /\ RootIs(VarX, 0)
    /\ \A o \in NumberOperators :
         input = SrcNumberOrder(o) =>
           /\ pc = "done"
           /\ RootIs(VarX, 4)
           /\ Root(VarR).ok

\* `false && g()` has run: r is false and the call of g has set x to 1
C30_Witness ==
  /\ pc = "done"
  /\ input = SrcLogicalEffect(FALSE, <<"&","&">>, TRUE)
  /\ RootIs(VarX, 1)
  /\ RootIsBool(VarR, FALSE)

====
